---- MODULE Spec2Model ----
(***************************************************************************)
(* Request/response bridging and worker synchronisation of pox-embed       *)
(* (crates/pox-embed/src/embed.c): the thread-local current request, the   *)
(* growable response buffers, the web SAPI entry points and the worker     *)
(* handshake of pox_handle_request / pox_worker_run.                       *)
(*                                                                         *)
(* Byte strings are kept run-length encoded: a sequence of <<tag, n>>      *)
(* meaning n bytes of value tag, with n > 0 and adjacent tags distinct, so *)
(* that buffers of the real sizes (8192, 4096 and their doublings) stay    *)
(* small values.  Two byte strings are equal iff their encodings are.      *)
(***************************************************************************)
EXTENDS Integers, Sequences, FiniteSets, TLC

\* ------------------------------------------------------------------ bounds
MaxRequests == 2      \* executions (web or worker) started in one behaviour
MaxCalls == 3         \* adapter callbacks in one behaviour of the buffer scenario
HsCalls == 1          \* adapter callbacks in one behaviour of the other scenarios
MaxOom == 1           \* allocation failures injected in one behaviour
NAddr == 4            \* heap blocks that can be live at once
PairRequests == 1     \* requests served in one behaviour of the two-worker scenario
MaxHeaderLines == 3   \* lines of a request's header block

\* ------------------------------------------------------- program constants
BodyInitCap == 8192
HdrInitCap == 4096
DefaultStatus == 200

NULL == 0
NoCtx == "NULL"

Threads == {"h", "w1", "w2"}
Workers == {"w1", "w2"}
Host == "h"
HostCtxs == {"c1", "c2"}
DummyOf(t) == "dummy_" \o t
CtxIds == HostCtxs \cup {DummyOf(w) : w \in Workers}
Addrs == 1..NAddr

\* ------------------------------------------------------------ byte strings
RECURSIVE RLen(_)
RLen(r) == IF r = <<>> THEN 0 ELSE r[1][2] + RLen(Tail(r))

RPush(r, tag, n) ==
    IF n = 0 THEN r
    ELSE IF Len(r) > 0 /\ r[Len(r)][1] = tag
         THEN [r EXCEPT ![Len(r)] = <<tag, r[Len(r)][2] + n>>]
         ELSE Append(r, <<tag, n>>)

RECURSIVE RCat(_, _)
RCat(r, s) == IF s = <<>> THEN r ELSE RCat(RPush(r, s[1][1], s[1][2]), Tail(s))

RECURSIVE RTake(_, _)
RTake(r, n) ==
    IF n = 0 \/ r = <<>> THEN <<>>
    ELSE IF r[1][2] <= n THEN RCat(<<r[1]>>, RTake(Tail(r), n - r[1][2]))
         ELSE <<(<<r[1][1], n>>)>>

RECURSIVE RDrop(_, _)
RDrop(r, n) ==
    IF n = 0 \/ r = <<>> THEN r
    ELSE IF r[1][2] <= n THEN RDrop(Tail(r), n - r[1][2])
         ELSE <<(<<r[1][1], r[1][2] - n>>)>> \o Tail(r)

\* memcpy(dst + off, src, n) on the initialised bytes of a block: bytes
\* below off that were never written are indeterminate ("?").
MemcpyAt(data, off, src) ==
    LET pre == IF RLen(data) >= off THEN RTake(data, off)
               ELSE RPush(data, "?", off - RLen(data))
    IN  RCat(RCat(pre, src), RDrop(data, off + RLen(src)))

\* ------------------------------------------------------------------- heap
DeadBlock == [live |-> FALSE, cap |-> 0, data |-> <<>>, epoch |-> 0]

FreeAddrs(h) == {a \in Addrs : ~h[a].live}
LowestFree(h) == CHOOSE a \in FreeAddrs(h) : \A b \in FreeAddrs(h) : a <= b

\* realloc(ptr, new_cap): the outcomes the allocator may produce.  A NULL
\* ptr is malloc; a non-NULL ptr grows in place or moves (content kept, old
\* block released); failure returns NULL and leaves the heap alone.
Realloc(h, ptr, new_cap, ep, mayFail) ==
    LET fail == IF mayFail \/ (FreeAddrs(h) = {} /\ ptr = NULL)
                THEN {[h |-> h, ret |-> NULL]} ELSE {}
        fresh == IF FreeAddrs(h) = {} THEN {}
                 ELSE LET a == LowestFree(h) IN
                      IF ptr = NULL
                      THEN {[h |-> [h EXCEPT ![a] = [live |-> TRUE, cap |-> new_cap,
                                                     data |-> <<>>, epoch |-> ep]],
                             ret |-> a]}
                      ELSE {[h |-> [h EXCEPT ![a] = [live |-> TRUE, cap |-> new_cap,
                                                     data |-> RTake(h[ptr].data, new_cap),
                                                     epoch |-> h[ptr].epoch],
                                              ![ptr] = DeadBlock],
                             ret |-> a]}
        inplace == IF ptr = NULL THEN {}
                   ELSE {[h |-> [h EXCEPT ![ptr].cap = new_cap], ret |-> ptr]}
    IN  fail \cup fresh \cup inplace

\* ------------------------------------------------------- request context
\* A C string is the sequence of its characters; a NULL char pointer is
\* NullStr, which is no sequence of characters.
NullStr == <<"NULL">>

\* pox_request_context: the request fields, the response fields, the body
\* read cursor and the request body; a zeroed record is what `= {0}` gives.
ZeroCtx == [method |-> NullStr, uri |-> NullStr, query_string |-> NullStr,
            script_filename |-> NullStr, document_root |-> NullStr,
            server_name |-> NullStr, server_port |-> 0,
            remote_addr |-> NullStr, remote_port |-> 0,
            content_type |-> NullStr, content_length |-> 0, headers |-> NullStr,
            response_body |-> NULL, response_body_len |-> 0, response_body_cap |-> 0,
            response_headers |-> NULL, response_headers_len |-> 0,
            response_headers_cap |-> 0, response_status |-> 0,
            request_body |-> <<>>, request_body_len |-> 0, request_body_read |-> 0]

\* Result of one buffer operation: the context, the heap, whether the append
\* took place, and whether the copy ran outside the block (memory fault).
Outcome(c, h, ok, bad) == [c |-> c, h |-> h, ok |-> ok, bad |-> bad]

\* The growth loop of append_response_body.
RECURSIVE GrowBody(_, _, _, _, _)
GrowBody(c, h, len, ep, mayFail) ==
    IF c.response_body_len + len >= c.response_body_cap
    THEN LET new_cap == IF c.response_body_cap * 2 = 0 THEN BodyInitCap
                        ELSE c.response_body_cap * 2
         IN  UNION { IF r.ret = NULL
                     THEN {Outcome(c, h, FALSE, FALSE)}
                     ELSE GrowBody([c EXCEPT !.response_body = r.ret,
                                             !.response_body_cap = new_cap],
                                   r.h, len, ep, mayFail)
                   : r \in Realloc(h, c.response_body, new_cap, ep, mayFail) }
    ELSE {Outcome(c, h, TRUE, FALSE)}

\* append_response_body on the context c that current_request designates.
append_response_body_lenfirst(c, h, data, ep, mayFail) ==
    { IF ~g.ok
      THEN Outcome([g.c EXCEPT !.response_body_len = @ + RLen(data)], g.h, FALSE, FALSE)
      ELSE LET p == g.c.response_body
               off == g.c.response_body_len
           IN  IF p = NULL \/ ~g.h[p].live \/ off + RLen(data) > g.h[p].cap
               THEN Outcome([g.c EXCEPT !.response_body_len = off + RLen(data)],
                            g.h, TRUE, TRUE)
               ELSE Outcome([g.c EXCEPT !.response_body_len = off + RLen(data)],
                            [g.h EXCEPT ![p].data = MemcpyAt(@, off, data)],
                            TRUE, FALSE)
    : g \in GrowBody(c, h, RLen(data), ep, mayFail) }

append_response_body_at0(c, h, data, ep, mayFail) ==
    { IF ~g.ok THEN g
      ELSE LET p == g.c.response_body
               off == g.c.response_body_len
           IN  IF p = NULL \/ ~g.h[p].live \/ off + RLen(data) > g.h[p].cap
               THEN Outcome([g.c EXCEPT !.response_body_len = off + RLen(data)],
                            g.h, TRUE, TRUE)
               ELSE Outcome([g.c EXCEPT !.response_body_len = off + RLen(data)],
                            [g.h EXCEPT ![p].data = MemcpyAt(@, 0, data)],
                            TRUE, FALSE)
    : g \in GrowBody(c, h, RLen(data), ep, mayFail) }

append_response_body_gt(c, h, data, ep, mayFail) ==
    { IF ~g.ok THEN g
      ELSE LET p == g.c.response_body
               off == g.c.response_body_len
           IN  IF p = NULL \/ ~g.h[p].live \/ off + RLen(data) > g.h[p].cap
               THEN Outcome([g.c EXCEPT !.response_body_len = off + RLen(data)],
                            g.h, TRUE, TRUE)
               ELSE Outcome([g.c EXCEPT !.response_body_len = off + RLen(data)],
                            [g.h EXCEPT ![p].data = MemcpyAt(@, off, data)],
                            TRUE, FALSE)
    : g \in GrowBody(c, h, RLen(data) - 1, ep, mayFail) }

append_response_body(c, h, data, ep, mayFail) ==
    { IF ~g.ok THEN g
      ELSE LET p == g.c.response_body
               off == g.c.response_body_len
           IN  IF p = NULL \/ ~g.h[p].live \/ off + RLen(data) > g.h[p].cap
               THEN Outcome([g.c EXCEPT !.response_body_len = off + RLen(data)],
                            g.h, TRUE, TRUE)
               ELSE Outcome([g.c EXCEPT !.response_body_len = off + RLen(data)],
                            [g.h EXCEPT ![p].data = MemcpyAt(@, off, data)],
                            TRUE, FALSE)
    : g \in GrowBody(c, h, RLen(data), ep, mayFail) }

\* The growth loop of append_response_header.
RECURSIVE GrowHeaders(_, _, _, _, _)
GrowHeaders(c, h, total_len, ep, mayFail) ==
    IF c.response_headers_len + total_len >= c.response_headers_cap
    THEN LET new_cap == IF c.response_headers_cap * 2 = 0 THEN HdrInitCap
                        ELSE c.response_headers_cap * 2
         IN  UNION { IF r.ret = NULL
                     THEN {Outcome(c, h, FALSE, FALSE)}
                     ELSE GrowHeaders([c EXCEPT !.response_headers = r.ret,
                                                !.response_headers_cap = new_cap],
                                      r.h, total_len, ep, mayFail)
                   : r \in Realloc(h, c.response_headers, new_cap, ep, mayFail) }
    ELSE {Outcome(c, h, TRUE, FALSE)}

\* append_response_header: the header bytes and then one "\n".
append_response_header_nonl(c, h, header, ep, mayFail) ==
    { IF ~g.ok THEN g
      ELSE LET p == g.c.response_headers
               off == g.c.response_headers_len
           IN  IF p = NULL \/ ~g.h[p].live \/ off + RLen(header) > g.h[p].cap
               THEN Outcome([g.c EXCEPT !.response_headers_len = off + RLen(header)],
                            g.h, TRUE, TRUE)
               ELSE Outcome([g.c EXCEPT !.response_headers_len = off + RLen(header)],
                            [g.h EXCEPT ![p].data = MemcpyAt(@, off, header)],
                            TRUE, FALSE)
    : g \in GrowHeaders(c, h, RLen(header) + 1, ep, mayFail) }

append_response_header(c, h, header, ep, mayFail) ==
    { IF ~g.ok THEN g
      ELSE LET p == g.c.response_headers
               off == g.c.response_headers_len
               line == RPush(header, "\n", 1)
           IN  IF p = NULL \/ ~g.h[p].live \/ off + RLen(line) > g.h[p].cap
               THEN Outcome([g.c EXCEPT !.response_headers_len = off + RLen(line)],
                            g.h, TRUE, TRUE)
               ELSE Outcome([g.c EXCEPT !.response_headers_len = off + RLen(line)],
                            [g.h EXCEPT ![p].data = MemcpyAt(@, off, line)],
                            TRUE, FALSE)
    : g \in GrowHeaders(c, h, RLen(header) + 1, ep, mayFail) }

\* The bytes a host reads back from a context: the first len bytes of the
\* block the pointer designates.
BodyBytes(c, h) == IF c.response_body = NULL THEN <<>>
                   ELSE RTake(h[c.response_body].data, c.response_body_len)
HeaderBytes(c, h) == IF c.response_headers = NULL THEN <<>>
                     ELSE RTake(h[c.response_headers].data, c.response_headers_len)

\* ------------------------------------------------------------ engine side
\* What the engine hands to the adapter callbacks.  A scenario with
\* st = TRUE draws the status the script sets from the full set; one with
\* rich = TRUE draws from the full sets: a 0-byte chunk, a 1-byte chunk, one
\* that exactly reaches the initial capacity after a 1-byte chunk and one
\* larger than two doublings; header lists with a header larger than the
\* initial header capacity.
Chunks(rich) == IF rich
                THEN { <<>>, <<(<<"a", 1>>)>>, <<(<<"b", 8191>>)>>, <<(<<"c", 20000>>)>> }
                ELSE { <<(<<"a", 1>>)>> }
HeaderLists(rich) == IF rich
                     THEN { <<>>, << <<(<<"x", 20>>)>> >>,
                            << <<(<<"x", 20>>)>>, <<(<<"y", 5000>>)>> >> }
                     ELSE { << <<(<<"x", 20>>)>> >> }
ReadCounts(rich) == IF rich THEN {4, 100} ELSE {4}

Digits == {"0", "1", "2", "3", "4", "5", "6", "7", "8", "9"}
DigitVal(ch) == CASE ch = "0" -> 0 [] ch = "1" -> 1 [] ch = "2" -> 2 [] ch = "3" -> 3
                  [] ch = "4" -> 4 [] ch = "5" -> 5 [] ch = "6" -> 6 [] ch = "7" -> 7
                  [] ch = "8" -> 8 [] ch = "9" -> 9

RECURSIVE AtoiDigits(_, _)
AtoiDigits(s, acc) == IF s = <<>> \/ s[1] \notin Digits THEN acc
                      ELSE AtoiDigits(Tail(s), acc * 10 + DigitVal(s[1]))

RECURSIVE SkipSpace(_)
SkipSpace(s) == IF s # <<>> /\ s[1] \in {" ", "\t"} THEN SkipSpace(Tail(s)) ELSE s

\* atoi: leading white space, an optional sign, then decimal digits.
Atoi(s) == LET u == SkipSpace(s) IN
           IF u = <<>> THEN 0
           ELSE IF u[1] = "-" THEN 0 - AtoiDigits(Tail(u), 0)
           ELSE IF u[1] = "+" THEN AtoiDigits(Tail(u), 0)
           ELSE AtoiDigits(u, 0)

NoLine == <<>>
Line404 == <<"H", "T", "T", "P", "/", "1", ".", "1", " ", "4", "0", "4", " ", "N", "F">>
\* header("HTTP/2 404 NF"): the engine keeps the line and extracts 404.
LineH2 == <<"H", "T", "T", "P", "/", "2", " ", "4", "0", "4", " ", "N", "F">>
\* The status the script leaves in SG before the headers are sent:
\* <<status line, response code>>.
Statuses(st) == IF st THEN { <<NoLine, 200>>, <<NoLine, 0>>, <<NoLine, 500>>,
                                 <<Line404, 404>>, <<LineH2, 404>> }
                  ELSE { <<Line404, 404>> }

\* ------------------------------------------------- variable registration
\* Names of the variables pox_web_register_variables registers.
REQUEST_METHOD ==
    <<"R", "E", "Q", "U", "E", "S", "T", "_", "M", "E", "T", "H", "O", "D">>
REQUEST_URI ==
    <<"R", "E", "Q", "U", "E", "S", "T", "_", "U", "R", "I">>
QUERY_STRING ==
    <<"Q", "U", "E", "R", "Y", "_", "S", "T", "R", "I", "N", "G">>
SCRIPT_FILENAME ==
    <<"S", "C", "R", "I", "P", "T", "_", "F", "I", "L", "E", "N", "A", "M", "E">>
SCRIPT_NAME ==
    <<"S", "C", "R", "I", "P", "T", "_", "N", "A", "M", "E">>
PHP_SELF ==
    <<"P", "H", "P", "_", "S", "E", "L", "F">>
DOCUMENT_ROOT ==
    <<"D", "O", "C", "U", "M", "E", "N", "T", "_", "R", "O", "O", "T">>
SERVER_NAME ==
    <<"S", "E", "R", "V", "E", "R", "_", "N", "A", "M", "E">>
SERVER_PORT ==
    <<"S", "E", "R", "V", "E", "R", "_", "P", "O", "R", "T">>
REMOTE_ADDR ==
    <<"R", "E", "M", "O", "T", "E", "_", "A", "D", "D", "R">>
REMOTE_PORT ==
    <<"R", "E", "M", "O", "T", "E", "_", "P", "O", "R", "T">>
SERVER_SOFTWARE ==
    <<"S", "E", "R", "V", "E", "R", "_", "S", "O", "F", "T", "W", "A", "R", "E">>
SERVER_PROTOCOL ==
    <<"S", "E", "R", "V", "E", "R", "_", "P", "R", "O", "T", "O", "C", "O", "L">>
GATEWAY_INTERFACE ==
    <<"G", "A", "T", "E", "W", "A", "Y", "_", "I", "N", "T", "E", "R", "F", "A", "C", "E">>
CONTENT_TYPE ==
    <<"C", "O", "N", "T", "E", "N", "T", "_", "T", "Y", "P", "E">>
CONTENT_LENGTH ==
    <<"C", "O", "N", "T", "E", "N", "T", "_", "L", "E", "N", "G", "T", "H">>
HTTP_CONTENT_TYPE ==
    <<"H", "T", "T", "P", "_", "C", "O", "N", "T", "E", "N", "T", "_", "T", "Y", "P", "E">>
HTTP_CONTENT_LENGTH ==
    <<"H", "T", "T", "P", "_", "C", "O", "N", "T", "E", "N", "T", "_", "L", "E", "N", "G", "T", "H">>

\* The literals of pox_web_register_variables.
StrGET == <<"G", "E", "T">>
StrSlash == <<"/">>
StrLocalhost == <<"l", "o", "c", "a", "l", "h", "o", "s", "t">>
StrLoopback == <<"1", "2", "7", ".", "0", ".", "0", ".", "1">>
StrPhpx == <<"p", "h", "p", "x">>
StrHttp11 == <<"H", "T", "T", "P", "/", "1", ".", "1">>
StrCgi11 == <<"C", "G", "I", "/", "1", ".", "1">>
StrHttpPrefix == <<"H", "T", "T", "P", "_">>

LowerCase == <<"a", "b", "c", "d", "e", "f", "g", "h", "i", "j", "k", "l", "m", "n", "o", "p", "q", "r", "s", "t", "u", "v", "w", "x", "y", "z">>
UpperCase == <<"A", "B", "C", "D", "E", "F", "G", "H", "I", "J", "K", "L", "M", "N", "O", "P", "Q", "R", "S", "T", "U", "V", "W", "X", "Y", "Z">>

\* The name loop of the header projection: '-' becomes '_', a lower-case
\* letter its upper-case one, anything else stays.
HeaderNameChar_keepdash(ch) ==
    IF \E i \in 1..26 : LowerCase[i] = ch
    THEN UpperCase[CHOOSE i \in 1..26 : LowerCase[i] = ch]
    ELSE ch
HeaderNameChar(ch) ==
    IF ch = "-" THEN "_"
    ELSE IF \E i \in 1..26 : LowerCase[i] = ch
         THEN UpperCase[CHOOSE i \in 1..26 : LowerCase[i] = ch]
         ELSE ch

\* strchr / memchr: the index of the first ch in s, 0 if there is none.
FirstIndex(s, ch) ==
    IF \E i \in 1..Len(s) : s[i] = ch
    THEN CHOOSE i \in 1..Len(s) : s[i] = ch /\ \A j \in 1..(i - 1) : s[j] # ch
    ELSE 0

\* snprintf "%d" / "%zu": the decimal text of a number.
DigitChars == <<"0", "1", "2", "3", "4", "5", "6", "7", "8", "9">>
RECURSIVE DecDigits(_)
DecDigits(n) == IF n < 10 THEN <<DigitChars[n + 1]>>
                ELSE DecDigits(n \div 10) \o <<DigitChars[(n % 10) + 1]>>
FormatInt(n) == IF n < 0 THEN <<"-">> \o DecDigits(0 - n) ELSE DecDigits(n)

\* The variable table with nothing in it.
EmptyVars == [n \in {} |-> <<>>]

\* php_import_environment_variables: the process environment, which holds
\* no CGI request variable.
Environ == [n \in {<<"P", "A", "T", "H">>} |-> <<"/", "b", "i", "n">>]

\* php_register_variable_safe(name, val, len, table): the variable gets the
\* first len characters of val, replacing what it had.
php_register_variable_safe(tab, name, val, len) ==
    [n \in DOMAIN tab \cup {name} |-> IF n = name THEN SubSeq(val, 1, len) ELSE tab[n]]

\* "field ? field : literal" with "field ? strlen(field) : literal length".
RegisterOrDefault(tab, name, field, dflt, dlen) ==
    php_register_variable_safe(tab, name,
                               IF field # NullStr THEN field ELSE dflt,
                               IF field # NullStr THEN Len(field) ELSE dlen)

\* The standard CGI variables, in the order of the code.
RegisterRemoteAddr_short(tab, c) ==
    RegisterOrDefault(tab, REMOTE_ADDR, c.remote_addr, StrLoopback, 8)
RegisterRemoteAddr(tab, c) ==
    RegisterOrDefault(tab, REMOTE_ADDR, c.remote_addr, StrLoopback, 9)

RegisterStandard(tab, c) ==
    LET t1 == RegisterOrDefault(tab, REQUEST_METHOD, c.method, StrGET, 3)
        t2 == RegisterOrDefault(t1, REQUEST_URI, c.uri, StrSlash, 1)
        t3 == RegisterOrDefault(t2, QUERY_STRING, c.query_string, <<>>, 0)
        t4 == RegisterOrDefault(t3, SCRIPT_FILENAME, c.script_filename, <<>>, 0)
        t5 == RegisterOrDefault(t4, SCRIPT_NAME, c.uri, StrSlash, 1)
        t6 == RegisterOrDefault(t5, PHP_SELF, c.uri, StrSlash, 1)
        t7 == RegisterOrDefault(t6, DOCUMENT_ROOT, c.document_root, <<>>, 0)
        t8 == RegisterOrDefault(t7, SERVER_NAME, c.server_name, StrLocalhost, 9)
        port_str == FormatInt(IF c.server_port > 0 THEN c.server_port ELSE 80)
        t9 == php_register_variable_safe(t8, SERVER_PORT, port_str, Len(port_str))
        t10 == RegisterRemoteAddr(t9, c)
        remote_port_str == FormatInt(c.remote_port)
        t11 == php_register_variable_safe(t10, REMOTE_PORT, remote_port_str,
                                          Len(remote_port_str))
        t12 == php_register_variable_safe(t11, SERVER_SOFTWARE, StrPhpx, 4)
        t13 == php_register_variable_safe(t12, SERVER_PROTOCOL, StrHttp11, 8)
    IN  php_register_variable_safe(t13, GATEWAY_INTERFACE, StrCgi11, 7)

\* CONTENT_TYPE and CONTENT_LENGTH.
RegisterContent(tab, c) ==
    LET t1 == IF c.content_type # NullStr
              THEN php_register_variable_safe(tab, CONTENT_TYPE, c.content_type,
                                              Len(c.content_type))
              ELSE tab
        cl_str == FormatInt(c.content_length)
    IN  IF c.content_length > 0
        THEN php_register_variable_safe(t1, CONTENT_LENGTH, cl_str, Len(cl_str))
        ELSE t1

\* The names the header projection leaves out.
SkippedHeaderVars_type == {HTTP_CONTENT_TYPE}
SkippedHeaderVars == {HTTP_CONTENT_TYPE, HTTP_CONTENT_LENGTH}

\* One line of the header block: without a colon it is ignored; otherwise
\* the name is "HTTP_" and the converted text before the colon, the value
\* the rest of the line after the colon and the blanks that follow it.
RegisterHeaderLine_lastcolon(tab, line) ==
    LET colon == IF \E i \in 1..Len(line) : line[i] = ":"
                 THEN CHOOSE i \in 1..Len(line) :
                         line[i] = ":" /\ \A j \in (i + 1)..Len(line) : line[j] # ":"
                 ELSE 0
    IN
    IF colon = 0 THEN tab
    ELSE LET var_name == StrHttpPrefix \o
                             [i \in 1..(colon - 1) |-> HeaderNameChar(line[i])]
             value == SkipSpace(SubSeq(line, colon + 1, Len(line)))
         IN  IF var_name \in SkippedHeaderVars THEN tab
             ELSE php_register_variable_safe(tab, var_name, value, Len(value))
RegisterHeaderLine(tab, line) ==
    LET colon == FirstIndex(line, ":") IN
    IF colon = 0 THEN tab
    ELSE LET var_name == StrHttpPrefix \o
                             [i \in 1..(colon - 1) |-> HeaderNameChar(line[i])]
             value == SkipSpace(SubSeq(line, colon + 1, Len(line)))
         IN  IF var_name \in SkippedHeaderVars THEN tab
             ELSE php_register_variable_safe(tab, var_name, value, Len(value))

\* The loop over the lines of the header block.
RECURSIVE RegisterHeaders(_, _)
RegisterHeaders(tab, rest) ==
    IF rest = <<>> THEN tab
    ELSE LET eol == FirstIndex(rest, "\n")
             line == IF eol = 0 THEN rest ELSE SubSeq(rest, 1, eol - 1)
         IN  RegisterHeaders(RegisterHeaderLine(tab, line),
                             IF eol = 0 THEN <<>> ELSE SubSeq(rest, eol + 1, Len(rest)))

\* pox_web_register_variables for the current request record c.
pox_web_register_variables(c) ==
    LET t1 == RegisterContent(RegisterStandard(Environ, c), c)
    IN  IF c.headers # NullStr THEN RegisterHeaders(t1, c.headers) ELSE t1

\* pox_web_read_cookies on the header block of the current request: the
\* scan for the first line longer than "Cookie:" that starts with it in any
\* case; its text after the blanks that follow the colon, NullStr if there
\* is no header block or no such line.
RECURSIVE pox_web_read_cookies(_)
pox_web_read_cookies(headers) ==
    IF headers = NullStr \/ headers = <<>> THEN NullStr
    ELSE LET eol == FirstIndex(headers, "\n")
             line_len == IF eol = 0 THEN Len(headers) ELSE eol - 1
             cookie_header_len == 7
             lower(ch) == IF \E i \in 1..26 : UpperCase[i] = ch
                          THEN LowerCase[CHOOSE i \in 1..26 : UpperCase[i] = ch]
                          ELSE ch
         IN  IF /\ line_len > cookie_header_len
                /\ [i \in 1..cookie_header_len |-> lower(headers[i])]
                       = <<"c", "o", "o", "k", "i", "e", ":">>
             THEN SkipSpace(SubSeq(headers, cookie_header_len + 1, line_len))
             ELSE IF eol = 0 THEN NullStr
                  ELSE pox_web_read_cookies(SubSeq(headers, eol + 1, Len(headers)))

\* The engine's auto-globals other than $_SERVER, and those of them it
\* resolves lazily (jit).  A group is armed (to be resolved when code that
\* names it is compiled) or was resolved from the request context `from`.
AutoGlobals == {"_GET", "_POST", "_COOKIE", "_FILES", "_ENV", "_REQUEST"}
JitGlobals == {"_ENV", "_REQUEST"}

\* The per-thread state of the engine's request: whether a request is
\* started (php_request_startup without php_request_shutdown yet), the
\* cookie string the read-cookies callback gave, the $_SERVER table and
\* whether it is built, and the other groups.  NoVars: no request started.
NoVars == [active |-> FALSE, built |-> FALSE, vars |-> EmptyVars,
           cookie_data |-> NullStr,
           groups |-> [g \in AutoGlobals |-> [armed |-> FALSE, from |-> NoCtx]]]

\* php_request_startup with the request record c of identity id current:
\* sapi_activate reads the cookies, the jit groups are armed and the others
\* resolved; $_SERVER waits for the registration callback.
php_request_startup(c, id) ==
    [active |-> TRUE, built |-> FALSE, vars |-> EmptyVars,
     cookie_data |-> pox_web_read_cookies(c.headers),
     groups |-> [g \in AutoGlobals |->
                    IF g \in JitGlobals THEN [armed |-> TRUE, from |-> NoCtx]
                    ELSE [armed |-> FALSE, from |-> id]]]

\* pox_handle_request from sapi_activate to the end of the loop over
\* CG(auto_globals), on the engine state sv, for the pending request record
\* c of identity id: the cookies are read again; $_ENV is skipped, $_SERVER
\* is rebuilt by its callback, the other jit groups are skipped, the
\* remaining groups are resolved again by their callbacks.
ResetAutoGlobals_keepserver(sv, c, id) ==
    [sv EXCEPT !.cookie_data = pox_web_read_cookies(c.headers),
               !.groups = [g \in AutoGlobals |->
                              IF g = "_ENV" THEN sv.groups[g]
                              ELSE IF g \in JitGlobals THEN sv.groups[g]
                              ELSE [armed |-> FALSE, from |-> id]]]
ResetAutoGlobals(sv, c, id) ==
    [sv EXCEPT !.cookie_data = pox_web_read_cookies(c.headers),
               !.built = TRUE,
               !.vars = pox_web_register_variables(c),
               !.groups = [g \in AutoGlobals |->
                              IF g = "_ENV" THEN sv.groups[g]
                              ELSE IF g \in JitGlobals THEN sv.groups[g]
                              ELSE [armed |-> FALSE, from |-> id]]]

\* SG(...): the engine's per-thread SAPI globals the bridge reads or writes.
ZeroSG == [headers_sent |-> FALSE, http_response_code |-> 0,
           http_status_line |-> NoLine, server_context |-> NoCtx,
           read_post_bytes |-> 0]

\* ------------------------------------------------------------------ state
VARIABLES
    ctx,                \* the request context records, by identity
    heap,               \* malloc'ed blocks
    current_request,    \* static __thread pox_request_context *current_request
    worker_state,       \* static __thread pox_worker_state worker_state
    sg,                 \* SG(...) of each thread
    pc,                 \* where each thread is
    pox_web_initialized,
    pox_worker_global_initialized,
    calls,              \* adapter callbacks the engine has made
    lim,                \* the scenario: budgets and input richness, fixed by Init
    cb_ret,             \* what the last adapter callback on each thread returned
    reqSeq,             \* executions started so far
    oomCount,           \* allocation failures so far
    fault,              \* a copy ran outside its block
    exec,               \* per context: what was handed to the adapter in its execution
    handed,             \* per worker: context the host handed over, not yet completed
    offer,              \* per worker: context of the host's latest set_request, not yet signalled
    wake,               \* per worker: what the wait primitive was signalled with
    served,             \* per worker: Serving entries so far
    done,               \* per worker: pox_worker_request_done calls so far
    lastDone,           \* per worker: context of the last completion signal
    result,             \* per thread: status returned by pox_web_execute / pox_worker_run
    hr_ret,             \* per thread: outcome of the last pox_handle_request call
    phase,              \* per context: how far its execution got ("fresh": adopted
                        \* and reset, no callback yet; "running"; "complete";
                        \* "released": pox_free_response'd; "boot": boot context)
    lastSet,            \* per thread: context of the latest set_request run on it
    engine,             \* process-wide: the engine startup steps in effect
    server,             \* per thread: the variable table of the request, and
                        \* whether the registration callback has built it
    starts              \* per SAPI: module startups that succeeded since the
                        \* last shutdown of that SAPI

bufVars == <<ctx, heap, exec, oomCount, fault>>
initVars == <<pox_web_initialized, pox_worker_global_initialized, starts>>
hsVars == <<handed, offer, wake, served, done, lastDone, lastSet>>

vars == <<ctx, heap, current_request, worker_state, sg, pc, pox_web_initialized,
          pox_worker_global_initialized, calls, lim, reqSeq, oomCount, fault,
          exec, handed, offer, wake, served, done, lastDone, result, hr_ret,
          phase, lastSet, cb_ret, engine, server, starts>>

\* No status returned yet (the statuses are 0 and above).
NoResult == -1

\* What an operation leaves alone unless it says otherwise.
quiet == <<lim, cb_ret, engine, server>>

\* What an operation that returns no callback value and changes no
\* process-wide state leaves alone.
still == <<lim, engine, server>>

\* No callback yet; then the callback, the length it was asked for, the
\* length it returned and its serial among the callbacks.
NoRet == [op |-> "none", arg |-> 0, val |-> 0, n |-> 0]

\* The engine on thread t has gone on: the value its last callback returned
\* is consumed.
Consumed(t) == [cb_ret EXCEPT ![t] = NoRet]

\* What the host signals the wait primitive with: nothing yet, shutdown, or
\* the hand-over it made (context, thread the set_request call ran on, and
\* where the worker was at that moment).
NoOffer == [c |-> NoCtx, on |-> "-", at |-> "-", n |-> 0]
NoWake == NoOffer
ShutdownWake == [c |-> NoCtx, on |-> "-", at |-> "shutdown", n |-> 0]

ZeroWorkerState == [is_worker_mode |-> 0, waiting_for_request |-> 0,
                    pending_request |-> NoCtx]

\* Bookkeeping of the execution a context last went through: its serial,
\* the bytes whose append was not hit by an allocation failure, whether
\* one was, whether a body append took place after one, and the request
\* body bytes the read callback delivered.
ZeroExec == [epoch |-> 0, body |-> <<>>, headers |-> <<>>, dropped |-> FALSE,
             late |-> FALSE, read |-> <<>>]

\* The host's two contexts as it built them, zeroed: c1 with a 10-byte
\* request body, c2 without one.  A context becomes stale by being used
\* again.  The boot contexts of pox_worker_run do not exist yet.
ScriptPath == <<"/", "s", ".", "p", "h", "p">>
DocRoot == <<"/", "d">>
HostCtxInit(c) ==
    IF c = "c1"
    THEN [ZeroCtx EXCEPT !.script_filename = ScriptPath,
                         !.request_body = << <<"p", 4>>, <<"q", 3>>, <<"r", 3>> >>,
                         !.request_body_len = 10]
    ELSE [ZeroCtx EXCEPT !.script_filename = ScriptPath]

\* dummy_ctx of pox_worker_run.
DummyCtx == [ZeroCtx EXCEPT !.method = StrGET, !.uri = StrSlash, !.query_string = <<>>,
                            !.document_root = DocRoot, !.script_filename = ScriptPath,
                            !.server_name = StrLocalhost, !.server_port = 0,
                            !.remote_addr = StrLoopback, !.remote_port = 0]

\* The requests of the projection scenario.  The string fields: all the
\* optional ones absent, all present, every other one present.
StringFields ==
    { [method |-> NullStr, uri |-> NullStr, query_string |-> NullStr,
       document_root |-> NullStr, server_name |-> NullStr, remote_addr |-> NullStr],
      [method |-> <<"P", "O", "S", "T">>, uri |-> <<"/", "a">>, query_string |-> <<"q", "=", "1">>,
       document_root |-> DocRoot, server_name |-> <<"h", ".", "x">>, remote_addr |-> <<"1", "0", ".", "0", ".", "0", ".", "7">>],
      [method |-> <<"P", "U", "T">>, uri |-> NullStr, query_string |-> <<>>,
       document_root |-> NullStr, server_name |-> <<"h">>, remote_addr |-> NullStr] }
\* <<server_port, remote_port>>.
Ports == { <<0, 0>>, <<8080, 51234>>, <<-1, -1>> }
ContentTypes == { NullStr, <<"a", "/", "b">> }
ContentLengths == { 0, 10 }
\* Lines of a header block: the two the projection leaves out (one written
\* in lower case), between them one with blanks after the colon, one
\* without a colon, a Cookie line with nothing after the colon, a cookie
\* line written in another case with blanks after the colon, an empty line,
\* and a line with two colons whose name converts to that of the second
\* line.  A block has some of them, in this order, separated by newlines.
HeaderLineList == << <<"C", "o", "n", "t", "e", "n", "t", "-", "T", "y", "p", "e", ":", " ", "a", "/", "b">>,
                     <<"X", "-", "a", ":", " ", "\t", "v", " ", "w">>,
                     <<"c", "o", "n", "t", "e", "n", "t", "-", "l", "e", "n", "g", "t", "h", ":", "1", "0">>,
                     <<"j", "u", "n", "k">>,
                     <<"C", "o", "o", "k", "i", "e", ":">>,
                     <<"c", "O", "O", "K", "I", "E", ":", " ", "\t", "k", "=", "1">>,
                     <<>>,
                     <<"X", "-", "A", ":", "b", ":", "c">> >>
RECURSIVE JoinLines(_)
JoinLines(ls) == IF ls = <<>> THEN <<>>
                 ELSE IF Len(ls) = 1 THEN ls[1]
                 ELSE ls[1] \o <<"\n">> \o JoinLines(Tail(ls))
LinesOf(S) == LET idx == SelectSeq([i \in 1..Len(HeaderLineList) |-> i], LAMBDA i : i \in S)
              IN  [k \in 1..Len(idx) |-> HeaderLineList[idx[k]]]
HeaderBlocks == {NullStr} \cup
    { JoinLines(LinesOf(S)) : S \in {X \in SUBSET (1..Len(HeaderLineList)) : Cardinality(X) <= MaxHeaderLines} }

ProjCtx(sf, ports, ct, cl, hdr) ==
    [HostCtxInit("c1") EXCEPT !.method = sf.method, !.uri = sf.uri,
                              !.query_string = sf.query_string,
                              !.document_root = sf.document_root,
                              !.server_name = sf.server_name,
                              !.remote_addr = sf.remote_addr,
                              !.server_port = ports[1], !.remote_port = ports[2],
                              !.content_type = ct, !.content_length = cl,
                              !.headers = hdr]

\* Everything but the contexts and the scenario.
InitRest ==
    /\ heap = [a \in Addrs |-> DeadBlock]
    /\ current_request = [t \in Threads |-> NoCtx]
    /\ worker_state = [t \in Threads |-> ZeroWorkerState]
    /\ sg = [t \in Threads |-> ZeroSG]
    /\ pc = [t \in Threads |-> IF t = Host THEN "host" ELSE "idle"]
    /\ pox_web_initialized = 0
    /\ pox_worker_global_initialized = 0
    /\ calls = 0
    /\ reqSeq = 0
    /\ oomCount = 0
    /\ fault = FALSE
    /\ exec = [c \in CtxIds |-> ZeroExec]
    /\ handed = [w \in Workers |-> {}]
    /\ offer = [w \in Workers |-> NoOffer]
    /\ wake = [w \in Workers |-> NoWake]
    /\ lastSet = [t \in Threads |-> NoCtx]
    /\ phase = [c \in CtxIds |-> "none"]
    /\ served = [w \in Workers |-> 0]
    /\ done = [w \in Workers |-> 0]
    /\ lastDone = [w \in Workers |-> NoCtx]
    /\ result = [t \in Threads |-> NoResult]
    /\ hr_ret = [t \in Threads |-> "none"]
    /\ cb_ret = [t \in Threads |-> NoRet]
    /\ engine = {}
    /\ server = [t \in Threads |-> NoVars]
    /\ starts = [web |-> 0, worker |-> 0]

InitBase ==
    /\ ctx = [c \in CtxIds |-> IF c \in HostCtxs THEN HostCtxInit(c) ELSE ZeroCtx]
    /\ InitRest

\* Scenarios.  A process runs the web SAPI or the worker SAPI.  Allocation
\* failures are injected in the web scenarios, whose buffer code the worker
\* shares.  The host of the buffer scenario also releases a context it has
\* released already (refree); the hosts of the web scenarios also reuse a
\* context whose response they have not released (leak).
WebScenario == [calls |-> HsCalls, reqs |-> MaxRequests, oom |-> MaxOom,
                rich |-> FALSE, st |-> FALSE, refree |-> FALSE, leak |-> TRUE,
                workers |-> {}, web |-> TRUE]
WorkerScenario == [calls |-> HsCalls, reqs |-> MaxRequests, oom |-> 0,
                   rich |-> FALSE, st |-> FALSE, refree |-> FALSE, leak |-> FALSE,
                   workers |-> {"w1"}, web |-> FALSE]
BufScenario == [calls |-> MaxCalls, reqs |-> 1, oom |-> MaxOom,
                rich |-> TRUE, st |-> FALSE, refree |-> TRUE, leak |-> TRUE,
                workers |-> {}, web |-> TRUE]
StatusScenario == [calls |-> HsCalls, reqs |-> 1, oom |-> 0,
                   rich |-> FALSE, st |-> TRUE, refree |-> FALSE, leak |-> TRUE,
                   workers |-> {}, web |-> TRUE]
PairScenario == [calls |-> 0, reqs |-> PairRequests, oom |-> 0,
                 rich |-> FALSE, st |-> FALSE, refree |-> FALSE, leak |-> FALSE,
                 workers |-> {"w1", "w2"}, web |-> FALSE]
ProjScenario == [calls |-> 0, reqs |-> 1, oom |-> 0,
                 rich |-> FALSE, st |-> FALSE, refree |-> FALSE, leak |-> TRUE,
                 workers |-> {}, web |-> TRUE]

Init == InitBase /\ lim \in {WebScenario, WorkerScenario}
InitBuf == InitBase /\ lim \in {BufScenario, StatusScenario}
InitPair == InitBase /\ lim = PairScenario
InitProj ==
    /\ InitRest /\ lim = ProjScenario
    /\ \E sf \in StringFields, ports \in Ports, ct \in ContentTypes,
          cl \in ContentLengths, hdr \in HeaderBlocks :
          ctx = [c \in CtxIds |-> IF c = "c1" THEN ProjCtx(sf, ports, ct, cl, hdr)
                                  ELSE IF c \in HostCtxs THEN HostCtxInit(c)
                                  ELSE ZeroCtx]

\* One worker serving the two contexts of the host, which carry request
\* fields and one-line header blocks of their own; no adapter callback but
\* the registration.
InitServe ==
    /\ InitRest /\ lim = [WorkerScenario EXCEPT !.calls = 0]
    /\ \E sf \in {f \in StringFields : f.method # NullStr},
          h1 \in {NullStr, HeaderLineList[2]}, h2 \in {NullStr, HeaderLineList[6]} :
          ctx = [c \in CtxIds |->
                    IF c = "c1" THEN ProjCtx(sf, <<8080, 51234>>, <<"a", "/", "b">>, 10, h1)
                    ELSE IF c = "c2" THEN [HostCtxInit(c) EXCEPT !.headers = h2]
                    ELSE ZeroCtx]

\* ---------------------------------------------------- adapter callbacks
EnginePcs == {"web_script", "script", "callback"}

\* A callback ran for the current request of thread t.
Touched(t) == IF current_request[t] = NoCtx THEN phase
              ELSE [phase EXCEPT ![current_request[t]] =
                       IF @ = "fresh" THEN "running" ELSE @]

\* pox_web_ub_write on thread t (append_response_body on its current
\* request; a NULL current request drops the bytes).
WriteEffect_latest(t, data) ==
    LET set == {worker_state[x].pending_request : x \in Threads \ {t}} \ {NoCtx}
        cr == IF set # {} THEN CHOOSE c \in set : TRUE ELSE current_request[t] IN
    IF cr = NoCtx
    THEN UNCHANGED bufVars
    ELSE \E o \in append_response_body(ctx[cr], heap, data, exec[cr].epoch,
                                       oomCount < lim.oom) :
            /\ ctx' = [ctx EXCEPT ![cr] = o.c]
            /\ heap' = o.h
            /\ exec' = [exec EXCEPT ![cr].body = IF o.ok THEN RCat(@, data) ELSE @,
                                    ![cr].late = @ \/ (exec[cr].dropped /\ o.ok),
                                    ![cr].dropped = @ \/ ~o.ok]
            /\ oomCount' = IF o.ok THEN oomCount ELSE oomCount + 1
            /\ fault' = (fault \/ o.bad)

WriteEffect_stale(t, data) ==
    LET cr == IF current_request[t] = NoCtx THEN sg[t].server_context
              ELSE current_request[t] IN
    IF cr = NoCtx
    THEN UNCHANGED bufVars
    ELSE \E o \in append_response_body(ctx[cr], heap, data, exec[cr].epoch,
                                       oomCount < lim.oom) :
            /\ ctx' = [ctx EXCEPT ![cr] = o.c]
            /\ heap' = o.h
            /\ exec' = [exec EXCEPT ![cr].body = IF o.ok THEN RCat(@, data) ELSE @,
                                    ![cr].late = @ \/ (exec[cr].dropped /\ o.ok),
                                    ![cr].dropped = @ \/ ~o.ok]
            /\ oomCount' = IF o.ok THEN oomCount ELSE oomCount + 1
            /\ fault' = (fault \/ o.bad)

WriteEffect(t, data) ==
    LET cr == current_request[t] IN
    IF cr = NoCtx
    THEN UNCHANGED bufVars
    ELSE \E o \in append_response_body(ctx[cr], heap, data, exec[cr].epoch,
                                       oomCount < lim.oom) :
            /\ ctx' = [ctx EXCEPT ![cr] = o.c]
            /\ heap' = o.h
            /\ exec' = [exec EXCEPT ![cr].body = IF o.ok THEN RCat(@, data) ELSE @,
                                    ![cr].late = @ \/ (exec[cr].dropped /\ o.ok),
                                    ![cr].dropped = @ \/ ~o.ok]
            /\ oomCount' = IF o.ok THEN oomCount ELSE oomCount + 1
            /\ fault' = (fault \/ o.bad)

\* The loop of pox_web_send_headers over the engine's header list.
RECURSIVE AppendHeaderList(_, _, _, _, _)
AppendHeaderList(c, h, list, ep, budget) ==
    IF list = <<>> THEN {[c |-> c, h |-> h, fails |-> 0, bad |-> FALSE, kept |-> <<>>]}
    ELSE UNION { { [c |-> r.c, h |-> r.h,
                    fails |-> r.fails + (IF o.ok THEN 0 ELSE 1),
                    bad |-> (r.bad \/ o.bad),
                    kept |-> IF o.ok THEN RCat(RPush(Head(list), "\n", 1), r.kept)
                             ELSE r.kept]
                   : r \in AppendHeaderList(o.c, o.h, Tail(list), ep,
                                            budget - (IF o.ok THEN 0 ELSE 1)) }
                 : o \in append_response_header(c, h, Head(list), ep, budget > 0) }

\* The status pox_web_send_headers stores.
SentStatus(sgt) ==
    IF sgt.http_status_line # NoLine
    THEN Atoi(SubSeq(sgt.http_status_line, 10, Len(sgt.http_status_line)))
    ELSE IF sgt.http_response_code = 0 THEN DefaultStatus
         ELSE sgt.http_response_code

\* pox_web_send_headers on thread t, with sgt the SG state it reads.
pox_web_send_headers(t, sgt, list) ==
    LET cr == current_request[t] IN
    IF cr = NoCtx
    THEN UNCHANGED bufVars
    ELSE \E o \in AppendHeaderList([ctx[cr] EXCEPT !.response_status = SentStatus(sgt)],
                                   heap, list, exec[cr].epoch, lim.oom - oomCount) :
            /\ ctx' = [ctx EXCEPT ![cr] = o.c]
            /\ heap' = o.h
            /\ exec' = [exec EXCEPT ![cr].headers = RCat(@, o.kept),
                                    ![cr].dropped = @ \/ (o.fails > 0)]
            /\ oomCount' = oomCount + o.fails
            /\ fault' = (fault \/ o.bad)

\* sapi_send_headers of the engine: marks the headers sent and calls the
\* adapter's send-headers callback.
sapi_send_headers(t, list) ==
    /\ sg' = [sg EXCEPT ![t].headers_sent = TRUE]
    /\ pox_web_send_headers(t, sg[t], list)

\* pox_web_read_post: the number of bytes it copies on context record c
\* (0 with no body or nothing remaining), the bytes it copies into the
\* engine's buffer, and the record after the read.
ReadPostCount_whole(c, count_bytes) ==
    IF c.request_body = <<>> \/ c.request_body_len - c.request_body_read = 0 THEN 0
    ELSE count_bytes
ReadPostCount(c, count_bytes) ==
    LET remaining == c.request_body_len - c.request_body_read
    IN  IF c.request_body = <<>> \/ remaining = 0 THEN 0
        ELSE IF count_bytes < remaining THEN count_bytes ELSE remaining

ReadPostBytes(c, count_bytes) ==
    RTake(RDrop(c.request_body, c.request_body_read), ReadPostCount(c, count_bytes))

pox_web_read_post_consume(c, count_bytes) ==
    [c EXCEPT !.request_body_read = @ + ReadPostCount(c, count_bytes),
              !.request_body_len = @ - ReadPostCount(c, count_bytes)]

pox_web_read_post(c, count_bytes) ==
    [c EXCEPT !.request_body_read = @ + ReadPostCount(c, count_bytes)]

\* pox_web_ub_write returns the length it was given, whatever the append did.
pox_web_ub_write(str_length) == str_length

\* sapi_activate of the engine: header and POST-read state of a new request.
sapi_activate(sgt) == [sgt EXCEPT !.headers_sent = FALSE, !.http_status_line = NoLine,
                                  !.read_post_bytes = 0]

\* The engine, running script code on thread t, writes output.
CbWrite(t, data) ==
    /\ pc[t] \in EnginePcs /\ calls < lim.calls
    /\ calls' = calls + 1
    /\ WriteEffect(t, data)
    /\ phase' = Touched(t)
    /\ cb_ret' = [cb_ret EXCEPT ![t] = [op |-> "ub_write", arg |-> RLen(data),
                                        val |-> pox_web_ub_write(RLen(data)),
                                        n |-> calls + 1]]
    /\ UNCHANGED <<current_request, worker_state, sg, pc, initVars, lim, engine, server, reqSeq,
                   hsVars, result, hr_ret>>

\* The script sets a status line or response code and the engine sends the
\* headers (once per request: the engine checks SG(headers_sent)).
CbSendHeaders(t, st, list) ==
    /\ pc[t] \in EnginePcs /\ calls < lim.calls
    /\ ~sg[t].headers_sent
    /\ calls' = calls + 1
    /\ sg' = [sg EXCEPT ![t].headers_sent = TRUE, ![t].http_status_line = st[1],
                        ![t].http_response_code = st[2]]
    /\ pox_web_send_headers(t, [sg[t] EXCEPT !.http_status_line = st[1],
                                             !.http_response_code = st[2]], list)
    /\ phase' = Touched(t)
    /\ UNCHANGED <<current_request, worker_state, pc, initVars, quiet, reqSeq,
                   hsVars, result, hr_ret>>

\* The engine builds the variable table of the request on thread t: once
\* per request, it calls pox_web_register_variables, which registers
\* nothing without a current request.
CbRegisterVariables(t) ==
    /\ pc[t] \in EnginePcs /\ ~server[t].built
    /\ server' = [server EXCEPT ![t].built = TRUE,
                                 ![t].vars =
                                    IF current_request[t] = NoCtx THEN EmptyVars
                                    ELSE pox_web_register_variables(ctx[current_request[t]])]
    /\ UNCHANGED <<phase, bufVars, current_request, worker_state, sg, pc, initVars, calls,
                   lim, cb_ret, engine, reqSeq, hsVars, result, hr_ret>>

\* The engine compiles code on thread t that names the armed jit group g:
\* the group is resolved, $_REQUEST from the data of the current request.
CbResolveGlobal(t, g) ==
    /\ pc[t] \in EnginePcs /\ g \in JitGlobals /\ server[t].groups[g].armed
    /\ server' = [server EXCEPT ![t].groups[g] =
                     [armed |-> FALSE,
                      from |-> IF g = "_ENV" THEN NoCtx ELSE current_request[t]]]
    /\ UNCHANGED <<phase, bufVars, current_request, worker_state, sg, pc, initVars, calls,
                   lim, cb_ret, engine, reqSeq, hsVars, result, hr_ret>>

\* The engine calls the cookie callback on thread t: without a current
\* request pox_web_read_cookies returns NULL.
CbReadCookies(t) ==
    /\ pc[t] \in EnginePcs
    /\ server' = [server EXCEPT ![t].cookie_data =
                     IF current_request[t] = NoCtx THEN NullStr
                     ELSE pox_web_read_cookies(ctx[current_request[t]].headers)]
    /\ UNCHANGED <<phase, bufVars, current_request, worker_state, sg, pc, initVars, calls,
                   lim, cb_ret, engine, reqSeq, hsVars, result, hr_ret>>

\* The engine builds $_SERVER on thread t once more, calling the
\* registration callback on a new table.
CbRegisterAgain(t) ==
    /\ pc[t] \in EnginePcs
    /\ server' = [server EXCEPT ![t].built = TRUE,
                                 ![t].vars =
                                    IF current_request[t] = NoCtx THEN EmptyVars
                                    ELSE pox_web_register_variables(ctx[current_request[t]])]
    /\ UNCHANGED <<phase, bufVars, current_request, worker_state, sg, pc, initVars, calls,
                   lim, cb_ret, engine, reqSeq, hsVars, result, hr_ret>>

\* The engine reads request body bytes.
CbReadPost(t, n) ==
    /\ pc[t] \in EnginePcs /\ calls < lim.calls
    /\ calls' = calls + 1
    /\ phase' = Touched(t)
    /\ LET cr == current_request[t] IN
       IF cr = NoCtx
       THEN /\ cb_ret' = [cb_ret EXCEPT ![t] = [op |-> "read_post", arg |-> n, val |-> 0,
                                                n |-> calls + 1]]
            /\ UNCHANGED <<ctx, exec>>
       ELSE /\ ctx' = [ctx EXCEPT ![cr] = pox_web_read_post(@, n)]
            /\ exec' = [exec EXCEPT ![cr].read = RCat(@, ReadPostBytes(ctx[cr], n))]
            /\ cb_ret' = [cb_ret EXCEPT ![t] = [op |-> "read_post", arg |-> n,
                                                val |-> ReadPostCount(ctx[cr], n),
                                                n |-> calls + 1]]
    /\ UNCHANGED <<heap, oomCount, fault, current_request, worker_state, sg,
                   pc, initVars, lim, engine, server, reqSeq, hsVars, result, hr_ret>>

\* ------------------------------------------------------------- web mode
\* A context is in somebody's hands: current or pending on some thread, or
\* handed to a worker and not yet completed.  The host leaves such a context
\* alone (its side of the ownership contract).
Busy(c) == \/ \E t \in Threads : current_request[t] = c
           \/ \E t \in Threads : worker_state[t].pending_request = c
           \/ \E w \in Workers : c \in handed[w]

\* EG(exit_status) when the script is over: 0, or what exit() was given.
ExitStatuses == {0, 1}

\* The status pox_web_execute returns when pox_web_init or
\* php_request_startup fails.
StartupFailure == 1

\* Executions started or promised: those begun plus the contexts handed to a
\* worker that it has not claimed.
Promised == {c \in HostCtxs : /\ \E w \in Workers : c \in handed[w]
                              /\ \A t \in Threads : current_request[t] # c}
Started == reqSeq + Cardinality(Promised)

\* "Initialize response buffers" of pox_web_execute.
web_reset_keep_body(c) == [c EXCEPT !.response_headers = NULL,
                                    !.response_headers_len = 0,
                                    !.response_headers_cap = 0,
                                    !.response_status = 200, !.request_body_read = 0]
web_reset(c) == [c EXCEPT !.response_body = NULL, !.response_body_len = 0,
                          !.response_body_cap = 0, !.response_headers = NULL,
                          !.response_headers_len = 0, !.response_headers_cap = 0,
                          !.response_status = 200, !.request_body_read = 0]

NewExec(ep) == [epoch |-> ep, body |-> <<>>, headers |-> <<>>, dropped |-> FALSE,
                late |-> FALSE, read |-> <<>>]

\* The startup steps of pox_web_init and pox_worker_global_init before the
\* module startup: php_tsrm_startup, zend_signal_startup, sapi_startup.
EarlySteps == {"tsrm", "signal", "sapi"}

\* The engine after the body of an init function whose flag was 0: the
\* early steps are in effect, and the module if its startup succeeded.
EngineStartup(e, ok) == e \cup EarlySteps \cup (IF ok THEN {"module"} ELSE {})

\* php_module_shutdown and sapi_shutdown.
EngineShutdown(e) == e \ {"module", "sapi"}

\* pox_web_init: module startup may fail.
pox_web_init_nocheck(t, ok) ==
    /\ pc[t] = "host" /\ lim.web
    /\ pox_web_initialized' = IF pox_web_initialized = 1 \/ ok THEN 1 ELSE 0
    /\ engine' = EngineStartup(engine, ok)
    /\ starts' = IF ok THEN [starts EXCEPT !.web = @ + 1] ELSE starts
    /\ result' = [result EXCEPT ![t] = IF ok THEN 0 ELSE 1]
    /\ UNCHANGED <<phase, bufVars, current_request, worker_state, sg, pc,
                   pox_worker_global_initialized, calls, lim, cb_ret, server, reqSeq, hsVars,
                   hr_ret>>

pox_web_init(t, ok) ==
    /\ pc[t] = "host" /\ lim.web
    /\ pox_web_initialized' = IF pox_web_initialized = 1 \/ ok THEN 1 ELSE 0
    /\ engine' = IF pox_web_initialized = 1 THEN engine ELSE EngineStartup(engine, ok)
    /\ starts' = IF pox_web_initialized = 0 /\ ok THEN [starts EXCEPT !.web = @ + 1]
                  ELSE starts
    /\ result' = [result EXCEPT ![t] = IF pox_web_initialized = 1 \/ ok THEN 0 ELSE 1]
    /\ UNCHANGED <<phase, bufVars, current_request, worker_state, sg, pc,
                   pox_worker_global_initialized, calls, lim, cb_ret, server, reqSeq, hsVars,
                   hr_ret>>

\* pox_web_shutdown.
pox_web_shutdown(t) ==
    /\ pc[t] = "host" /\ lim.web
    /\ pox_web_initialized' = 0
    /\ engine' = IF pox_web_initialized = 1 THEN EngineShutdown(engine) ELSE engine
    /\ starts' = IF pox_web_initialized = 1 THEN [starts EXCEPT !.web = 0] ELSE starts
    /\ UNCHANGED <<phase, bufVars, current_request, worker_state, sg, pc,
                   pox_worker_global_initialized, calls, lim, cb_ret, server, reqSeq, hsVars,
                   result, hr_ret>>

\* pox_web_execute up to the try block: initialise if needed, adopt ctx as
\* the current request, reset its response fields, set up SG.
WebExecuteBegin(t, c, initok) ==
    /\ pc[t] = "host" /\ lim.web /\ c \in HostCtxs /\ ~Busy(c)
    /\ lim.leak \/ phase[c] \in {"none", "released", "released_again"}
    /\ Started < lim.reqs
    /\ engine' = IF pox_web_initialized = 1 THEN engine ELSE EngineStartup(engine, initok)
    /\ starts' = IF pox_web_initialized = 0 /\ initok THEN [starts EXCEPT !.web = @ + 1]
                  ELSE starts
    /\ IF pox_web_initialized = 0 /\ ~initok
       THEN /\ result' = [result EXCEPT ![t] = StartupFailure]
            /\ UNCHANGED <<ctx, current_request, sg, pc, pox_web_initialized,
                           reqSeq, exec, phase>>
       ELSE /\ pox_web_initialized' = 1
            /\ current_request' = [current_request EXCEPT ![t] = c]
            /\ ctx' = [ctx EXCEPT ![c] = web_reset(@)]
            /\ sg' = [sg EXCEPT ![t].server_context = c, ![t].http_response_code = 200]
            /\ pc' = [pc EXCEPT ![t] = "web_startup"]
            /\ reqSeq' = reqSeq + 1
            /\ exec' = [exec EXCEPT ![c] = NewExec(reqSeq + 1)]
            /\ phase' = [phase EXCEPT ![c] = "fresh"]
            /\ result' = [result EXCEPT ![t] = NoResult]
    /\ UNCHANGED <<heap, oomCount, fault, worker_state, pox_worker_global_initialized,
                   calls, lim, cb_ret, server, hsVars, hr_ret>>

\* php_request_startup inside the try block of pox_web_execute.
WebStartup(t, ok) ==
    /\ pc[t] = "web_startup"
    /\ IF ok
       THEN /\ sg' = [sg EXCEPT ![t] = sapi_activate(@)]
            /\ server' = [server EXCEPT ![t] =
                             php_request_startup(ctx[current_request[t]],
                                                 current_request[t])]
            /\ pc' = [pc EXCEPT ![t] = "web_script"]
            /\ UNCHANGED result
       ELSE /\ result' = [result EXCEPT ![t] = StartupFailure]
            /\ pc' = [pc EXCEPT ![t] = "web_shutdown"]
            /\ UNCHANGED <<sg, server>>
    /\ UNCHANGED <<phase, bufVars, current_request, worker_state, initVars, calls, lim,
                   cb_ret, engine, reqSeq, hsVars, hr_ret>>

\* php_execute_script returns or bails out: result = EG(exit_status).
WebScriptEnd_return(t, st) ==
    /\ pc[t] = "web_script"
    /\ result' = [result EXCEPT ![t] = st]
    /\ pc' = [pc EXCEPT ![t] = "host"]
    /\ cb_ret' = Consumed(t)
    /\ UNCHANGED <<phase, bufVars, current_request, worker_state, sg, initVars, calls, still,
                   reqSeq, hsVars, hr_ret>>

WebScriptEnd(t, st) ==
    /\ pc[t] = "web_script"
    /\ result' = [result EXCEPT ![t] = st]
    /\ pc' = [pc EXCEPT ![t] = "web_shutdown"]
    /\ cb_ret' = Consumed(t)
    /\ UNCHANGED <<phase, bufVars, current_request, worker_state, sg, initVars, calls, still,
                   reqSeq, hsVars, hr_ret>>

\* php_request_shutdown (the engine sends the headers if the script did
\* not), then current_request = NULL and return.
WebExecuteEnd(t, list) ==
    /\ pc[t] = "web_shutdown"
    /\ IF sg[t].headers_sent
       THEN UNCHANGED <<bufVars, sg>>
       ELSE sapi_send_headers(t, list)
    /\ current_request' = [current_request EXCEPT ![t] = NoCtx]
    /\ phase' = [phase EXCEPT ![current_request[t]] = "complete"]
    /\ server' = [server EXCEPT ![t] = NoVars]
    /\ pc' = [pc EXCEPT ![t] = "host"]
    /\ UNCHANGED <<worker_state, initVars, calls, lim, cb_ret, engine, reqSeq, hsVars,
                   result, hr_ret>>

\* free(ptr) on the heap.
Free(h, ptr) == [h EXCEPT ![ptr] = DeadBlock]

\* pox_free_response as a function of the context record and the heap.
FreeResponseCtx_keepptr(c) == c
FreeResponseCtx(c) == [c EXCEPT !.response_body = NULL, !.response_headers = NULL]
FreeResponseHeap(c, h) ==
    LET h1 == IF c.response_body # NULL THEN Free(h, c.response_body) ELSE h
    IN  IF c.response_headers # NULL THEN Free(h1, c.response_headers) ELSE h1

\* pox_free_response(ctx), called by the host on a context it owns.
pox_free_response(t, c) ==
    /\ pc[t] = "host" /\ c \in HostCtxs /\ ~Busy(c)
    /\ phase[c] \in {"released", "released_again"} => lim.refree
    /\ ctx' = [ctx EXCEPT ![c] = FreeResponseCtx(@)]
    /\ heap' = FreeResponseHeap(ctx[c], heap)
    /\ fault' = (fault \/ (ctx[c].response_body # NULL /\ ~heap[ctx[c].response_body].live)
                       \/ (ctx[c].response_headers # NULL
                           /\ ~heap[ctx[c].response_headers].live))
    /\ phase' = [phase EXCEPT ![c] = CASE @ = "none" -> @
                                        [] @ \in {"released", "released_again"}
                                             -> "released_again"
                                        [] OTHER -> "released"]
    /\ UNCHANGED <<exec, oomCount, current_request, worker_state, sg, pc, initVars, calls,
                   quiet, reqSeq, hsVars, result, hr_ret>>

\* ---------------------------------------------------------- worker mode
\* pox_worker_global_init: module startup may fail.
pox_worker_global_init(t, ok) ==
    /\ pc[t] = "host" /\ lim.workers # {}
    /\ pox_worker_global_initialized' =
          IF pox_worker_global_initialized = 1 \/ ok THEN 1 ELSE 0
    /\ engine' = IF pox_worker_global_initialized = 1 THEN engine
                  ELSE EngineStartup(engine, ok)
    /\ starts' = IF pox_worker_global_initialized = 0 /\ ok
                  THEN [starts EXCEPT !.worker = @ + 1] ELSE starts
    /\ result' = [result EXCEPT ![t] =
          IF pox_worker_global_initialized = 1 \/ ok THEN 0 ELSE 1]
    /\ UNCHANGED <<phase, bufVars, current_request, worker_state, sg, pc,
                   pox_web_initialized, calls, lim, cb_ret, server, reqSeq, hsVars, hr_ret>>

\* pox_worker_init: the per-thread worker state.
pox_worker_init_waiting == [is_worker_mode |-> 1, waiting_for_request |-> 1,
                            pending_request |-> NoCtx]
pox_worker_init == [is_worker_mode |-> 1, waiting_for_request |-> 0,
                    pending_request |-> NoCtx]

\* pox_worker_run up to the try block: per-thread initialisation, the boot
\* context on the stack becomes the current request, SG is set up.
WorkerRunBegin(w) ==
    /\ pc[w] = "idle" /\ w \in lim.workers
    /\ pox_worker_global_initialized = 1
    /\ worker_state' = [worker_state EXCEPT ![w] = pox_worker_init]
    /\ ctx' = [ctx EXCEPT ![DummyOf(w)] = DummyCtx]
    /\ exec' = [exec EXCEPT ![DummyOf(w)] = ZeroExec]
    /\ phase' = [phase EXCEPT ![DummyOf(w)] = "boot"]
    /\ current_request' = [current_request EXCEPT ![w] = DummyOf(w)]
    /\ sg' = [sg EXCEPT ![w].server_context = DummyOf(w), ![w].http_response_code = 200]
    /\ pc' = [pc EXCEPT ![w] = "run_startup"]
    /\ UNCHANGED <<heap, oomCount, fault, initVars, calls, quiet, reqSeq, hsVars,
                   result, hr_ret>>

\* php_request_startup inside the try block of pox_worker_run.
WorkerRunStartup(w, ok) ==
    /\ pc[w] = "run_startup"
    /\ IF ok
       THEN /\ sg' = [sg EXCEPT ![w] = sapi_activate(@)]
            /\ server' = [server EXCEPT ![w] =
                             php_request_startup(ctx[current_request[w]],
                                                 current_request[w])]
            /\ pc' = [pc EXCEPT ![w] = "script"]
            /\ UNCHANGED result
       ELSE /\ result' = [result EXCEPT ![w] = 1]
            /\ pc' = [pc EXCEPT ![w] = "run_shutdown"]
            /\ UNCHANGED <<sg, server>>
    /\ UNCHANGED <<phase, bufVars, current_request, worker_state, initVars, calls, lim,
                   cb_ret, engine, reqSeq, hsVars, hr_ret>>

\* The worker script calls pox_handle_request: the worker-mode check, then
\* waiting_for_request = 1 and the call of the wait primitive.
HrCall_nocheck(w) ==
    /\ pc[w] = "script"
    /\ worker_state' = [worker_state EXCEPT ![w].waiting_for_request = 1]
    /\ pc' = [pc EXCEPT ![w] = "hr_wait"]
    /\ hr_ret' = [hr_ret EXCEPT ![w] = "none"]
    /\ cb_ret' = Consumed(w)
    /\ UNCHANGED <<phase, bufVars, current_request, sg, initVars, calls, still, reqSeq,
                   hsVars, result>>

HrCall(w) ==
    /\ pc[w] = "script"
    /\ IF worker_state[w].is_worker_mode = 0
       THEN /\ hr_ret' = [hr_ret EXCEPT ![w] = "throws"]
            /\ UNCHANGED <<worker_state, pc>>
       ELSE /\ worker_state' = [worker_state EXCEPT ![w].waiting_for_request = 1]
            /\ pc' = [pc EXCEPT ![w] = "hr_wait"]
            /\ hr_ret' = [hr_ret EXCEPT ![w] = "none"]
    /\ cb_ret' = Consumed(w)
    /\ UNCHANGED <<phase, bufVars, current_request, sg, initVars, calls, still, reqSeq,
                   hsVars, result>>

\* pox_worker_set_request(ctx) executed on thread t: it stores into the
\* worker state of the thread that runs it.
pox_worker_set_request_once(t, c) ==
    IF worker_state[t].pending_request = NoCtx
    THEN [worker_state EXCEPT ![t].pending_request = c]
    ELSE worker_state

pox_worker_set_request(t, c) ==
    [worker_state EXCEPT ![t].pending_request = c]

\* Threads on which host code can run a call meant for worker w: the host
\* thread while w runs, or w itself while it is inside the wait primitive
\* or inside the completion callback.
HostCodeOn(t, w) == \/ t = Host /\ pc[Host] = "host" /\ pc[w] \notin {"idle", "returned"}
                    \/ t = w /\ pc[w] \in {"hr_wait", "in_done"}

\* The host hands context c to worker w: it calls pox_worker_set_request
\* on thread t.
HostSetRequest(t, w, c) ==
    /\ w \in lim.workers /\ HostCodeOn(t, w)
    /\ c \in HostCtxs /\ ~Busy(c)
    /\ lim.leak \/ phase[c] \in {"none", "released", "released_again"}
    /\ Started < lim.reqs
    /\ worker_state' = pox_worker_set_request(t, c)
    /\ offer' = [offer EXCEPT ![w] = [c |-> c, on |-> t, at |-> pc[w], n |-> served[w]]]
    /\ handed' = [handed EXCEPT ![w] = @ \cup {c}]
    /\ lastSet' = [lastSet EXCEPT ![t] = c]
    /\ UNCHANGED <<phase, bufVars, current_request, sg, pc, initVars, calls, quiet, reqSeq,
                   wake, served, done, lastDone, result, hr_ret>>

\* The host signals the wait primitive of worker w with "a request is
\* available", after a pox_worker_set_request for it.
HostWake(w) ==
    /\ w \in lim.workers /\ wake[w] = NoWake /\ offer[w] # NoOffer
    /\ pc[w] \notin {"idle", "returned"}
    /\ wake' = [wake EXCEPT ![w] = offer[w]]
    /\ offer' = [offer EXCEPT ![w] = NoOffer]
    /\ UNCHANGED <<phase, bufVars, current_request, worker_state, sg, pc, initVars, calls,
                   quiet, reqSeq, handed, served, done, lastDone, lastSet, result, hr_ret>>

\* The host signals the wait primitive of worker w with shutdown.
HostShutdown(w) ==
    /\ w \in lim.workers /\ wake[w] = NoWake /\ pc[w] = "hr_wait"
    /\ wake' = [wake EXCEPT ![w] = ShutdownWake]
    /\ UNCHANGED <<phase, bufVars, current_request, worker_state, sg, pc, initVars, calls,
                   quiet, reqSeq, handed, offer, served, done, lastDone, lastSet, result,
                   hr_ret>>

\* pox_worker_wait_for_request returns on worker w: 0 for shutdown, 1 for a
\* request.
got_request(w) == IF wake[w] = ShutdownWake THEN 0 ELSE 1

\* "Reset response buffers" of pox_handle_request.
worker_reset_keep_cursor(c) ==
    [c EXCEPT !.response_body = NULL, !.response_body_len = 0,
              !.response_body_cap = 0, !.response_headers = NULL,
              !.response_headers_len = 0, !.response_headers_cap = 0,
              !.response_status = 200]
worker_reset(c) == [c EXCEPT !.response_body = NULL, !.response_body_len = 0,
                             !.response_body_cap = 0, !.response_headers = NULL,
                             !.response_headers_len = 0, !.response_headers_cap = 0,
                             !.response_status = 200, !.request_body_read = 0]

\* The two early returns of pox_handle_request after the wait: shutdown was
\* requested, or there is no pending request.
HrDeclines_nogot(w) == worker_state[w].pending_request = NoCtx
HrDeclines(w) == got_request(w) = 0 \/ worker_state[w].pending_request = NoCtx

\* RETURN_FALSE of those two early returns: only the waiting flag has
\* changed.
HrReturnFalse_claims(w) ==
    /\ worker_state' = [worker_state EXCEPT ![w].waiting_for_request = 0]
    /\ current_request' = [current_request EXCEPT ![w] = worker_state[w].pending_request]
    /\ hr_ret' = [hr_ret EXCEPT ![w] = "false"]
    /\ pc' = [pc EXCEPT ![w] = "script"]
    /\ UNCHANGED <<ctx, exec, phase, sg, reqSeq, served, server>>

HrReturnFalse_callback(w) ==
    /\ worker_state' = [worker_state EXCEPT ![w].waiting_for_request = 0]
    /\ hr_ret' = [hr_ret EXCEPT ![w] = "none"]
    /\ pc' = [pc EXCEPT ![w] = IF got_request(w) = 0 THEN "script" ELSE "callback"]
    /\ UNCHANGED <<ctx, exec, phase, current_request, sg, reqSeq, served, server>>

HrReturnFalse(w) ==
    /\ worker_state' = [worker_state EXCEPT ![w].waiting_for_request = 0]
    /\ hr_ret' = [hr_ret EXCEPT ![w] = "false"]
    /\ pc' = [pc EXCEPT ![w] = "script"]
    /\ UNCHANGED <<ctx, exec, phase, current_request, sg, reqSeq, served, server>>

\* "current_request = worker_state.pending_request".
ClaimedRequest_stale(w) == IF sg[w].server_context \in HostCtxs THEN sg[w].server_context
                           ELSE worker_state[w].pending_request
ClaimedRequest(w) == worker_state[w].pending_request

\* pox_handle_request from the return of the wait primitive to the call of
\* the callback: the waiting flag is cleared; on shutdown or with no pending
\* request it returns false; otherwise the pending request becomes the
\* current one, its response fields are reset, SG is re-initialised, the
\* SAPI is activated and the auto-globals are reset.
HrResume(w) ==
    /\ pc[w] = "hr_wait" /\ wake[w] # NoWake
    /\ wake' = [wake EXCEPT ![w] = NoWake]
    /\ LET p == ClaimedRequest(w) IN
       IF HrDeclines(w)
       THEN HrReturnFalse(w)
       ELSE /\ worker_state' = [worker_state EXCEPT ![w].waiting_for_request = 0]
            /\ current_request' = [current_request EXCEPT ![w] = p]
            /\ ctx' = [ctx EXCEPT ![p] = worker_reset(@)]
            /\ sg' = [sg EXCEPT ![w] = sapi_activate([@ EXCEPT !.server_context = p,
                                                              !.http_response_code = 200,
                                                              !.headers_sent = FALSE,
                                                              !.read_post_bytes = 0])]
            /\ reqSeq' = reqSeq + 1
            /\ exec' = [exec EXCEPT ![p] = NewExec(reqSeq + 1)]
            /\ phase' = [phase EXCEPT ![p] = "fresh"]
            /\ served' = [served EXCEPT ![w] = @ + 1]
            /\ server' = [server EXCEPT ![w] = ResetAutoGlobals(@, ctx[p], p)]
            /\ pc' = [pc EXCEPT ![w] = "callback"]
            /\ UNCHANGED hr_ret
    /\ UNCHANGED <<heap, oomCount, fault, initVars, calls, lim, cb_ret, engine, handed,
                   offer, done, lastDone, lastSet, result>>

\* zend_call_function returns (the callback returned, or threw an exception
\* that is reported and cleared): output is flushed, the headers are sent
\* if they were not, and pox_worker_request_done is called.
HrFinish(w, list) ==
    /\ pc[w] = "callback"
    /\ IF sg[w].headers_sent
       THEN UNCHANGED <<bufVars, sg>>
       ELSE sapi_send_headers(w, list)
    /\ done' = [done EXCEPT ![w] = @ + 1]
    /\ lastDone' = [lastDone EXCEPT ![w] = current_request[w]]
    /\ phase' = [phase EXCEPT ![current_request[w]] = "complete"]
    /\ handed' = [handed EXCEPT ![w] = @ \ {current_request[w]}]
    /\ pc' = [pc EXCEPT ![w] = "in_done"]
    /\ cb_ret' = Consumed(w)
    /\ UNCHANGED <<current_request, worker_state, initVars, calls, still, reqSeq,
                   offer, wake, served, lastSet, result, hr_ret>>

\* The callback ends in a fatal engine error: zend_bailout unwinds to the
\* try block of pox_worker_run, skipping the rest of pox_handle_request.
HrBailout(w) ==
    /\ pc[w] = "callback"
    /\ result' = [result EXCEPT ![w] = 255]
    /\ pc' = [pc EXCEPT ![w] = "run_shutdown"]
    /\ cb_ret' = Consumed(w)
    /\ UNCHANGED <<phase, bufVars, current_request, worker_state, sg, initVars, calls, still,
                   reqSeq, hsVars, hr_ret>>

\* pox_worker_request_done has returned: the end of pox_handle_request.
HrReturn(w) ==
    /\ pc[w] = "in_done"
    /\ current_request' = [current_request EXCEPT ![w] = NoCtx]
    /\ worker_state' = [worker_state EXCEPT ![w].pending_request = NoCtx]
    /\ hr_ret' = [hr_ret EXCEPT ![w] = "true"]
    /\ pc' = [pc EXCEPT ![w] = "script"]
    /\ UNCHANGED <<phase, bufVars, sg, initVars, calls, quiet, reqSeq, hsVars, result>>

\* The worker script ends (its loop exits, it calls exit, or it bails out).
ScriptEnd(w, st) ==
    /\ pc[w] = "script"
    /\ result' = [result EXCEPT ![w] = st]
    /\ pc' = [pc EXCEPT ![w] = "run_shutdown"]
    /\ cb_ret' = Consumed(w)
    /\ UNCHANGED <<phase, bufVars, current_request, worker_state, sg, initVars, calls, still,
                   reqSeq, hsVars, hr_ret>>

\* The tail of pox_worker_run: php_request_shutdown, then the current
\* request and the worker-mode flag are cleared.
WorkerRunEnd(w, list) ==
    /\ pc[w] = "run_shutdown"
    /\ IF sg[w].headers_sent
       THEN UNCHANGED <<bufVars, sg>>
       ELSE sapi_send_headers(w, list)
    /\ current_request' = [current_request EXCEPT ![w] = NoCtx]
    /\ worker_state' = [worker_state EXCEPT ![w].is_worker_mode = 0]
    /\ pc' = [pc EXCEPT ![w] = "returned"]
    /\ phase' = IF sg[w].headers_sent THEN phase ELSE Touched(w)
    /\ server' = [server EXCEPT ![w] = NoVars]
    /\ UNCHANGED <<initVars, calls, lim, cb_ret, engine, reqSeq, hsVars, result, hr_ret>>

\* pox_worker_shutdown executed on thread t.
pox_worker_shutdown(t) ==
    /\ \E w \in lim.workers : HostCodeOn(t, w)
    /\ worker_state[t].is_worker_mode = 1
    /\ worker_state' = [worker_state EXCEPT ![t].is_worker_mode = 0]
    /\ UNCHANGED <<phase, bufVars, current_request, sg, pc, initVars, calls, quiet, reqSeq,
                   hsVars, result, hr_ret>>

WebNext ==
    \/ \E ok \in BOOLEAN : pox_web_init(Host, ok)
    \/ pox_web_shutdown(Host)
    \/ \E c \in HostCtxs, ok \in BOOLEAN : WebExecuteBegin(Host, c, ok)
    \/ \E ok \in BOOLEAN : WebStartup(Host, ok)
    \/ \E st \in ExitStatuses : WebScriptEnd(Host, st)
    \/ \E l \in HeaderLists(lim.rich) : WebExecuteEnd(Host, l)
    \/ \E c \in HostCtxs : pox_free_response(Host, c)

CallbackNext ==
    \/ \E t \in Threads, d \in Chunks(lim.rich) : CbWrite(t, d)
    \/ \E t \in Threads, st \in Statuses(lim.st), l \in HeaderLists(lim.rich) :
          CbSendHeaders(t, st, l)
    \/ \E t \in Threads, n \in ReadCounts(lim.rich) : CbReadPost(t, n)

WorkerNext ==
    \/ \E ok \in BOOLEAN : pox_worker_global_init(Host, ok)
    \/ \E w \in Workers : WorkerRunBegin(w)
    \/ \E w \in Workers, ok \in BOOLEAN : WorkerRunStartup(w, ok)
    \/ \E w \in Workers : HrCall(w)
    \/ \E t \in Threads, w \in Workers, c \in HostCtxs : HostSetRequest(t, w, c)
    \/ \E w \in Workers : HostWake(w)
    \/ \E w \in Workers : HostShutdown(w)
    \/ \E w \in Workers : HrResume(w)
    \/ \E w \in Workers, l \in HeaderLists(lim.rich) : HrFinish(w, l)
    \/ \E w \in Workers : HrBailout(w)
    \/ \E w \in Workers : HrReturn(w)
    \/ \E w \in Workers, st \in ExitStatuses : ScriptEnd(w, st)
    \/ \E w \in Workers, l \in HeaderLists(lim.rich) : WorkerRunEnd(w, l)
    \/ \E t \in Threads : pox_worker_shutdown(t)

Next == WebNext \/ CallbackNext \/ WorkerNext

Spec == Init /\ [][Next]_vars

\* One web execution with the full input sets.
NextBuf == WebNext \/ CallbackNext
SpecBuf == InitBuf /\ [][NextBuf]_vars

\* Two workers, handshake only.
SpecPair == InitPair /\ [][WorkerNext]_vars

\* One web execution of each request of the projection scenario, with the
\* variable registration.
NextProj ==
    \/ \E c \in HostCtxs, ok \in BOOLEAN : WebExecuteBegin(Host, c, ok)
    \/ \E ok \in BOOLEAN : WebStartup(Host, ok)
    \/ \E t \in Threads : CbRegisterVariables(t)
    \/ \E st \in ExitStatuses : WebScriptEnd(Host, st)
    \/ \E l \in HeaderLists(lim.rich) : WebExecuteEnd(Host, l)
SpecProj == InitProj /\ [][NextProj]_vars

\* One worker with the variable groups of its requests.
NextServe ==
    \/ WorkerNext
    \/ \E t \in Threads : CbRegisterVariables(t)
    \/ \E t \in Threads, g \in JitGlobals : CbResolveGlobal(t, g)
SpecServe == InitServe /\ [][NextServe]_vars

\* One worker whose engine calls every adapter callback, also between two
\* requests; the first context carries a cookie line.
InitIdle ==
    /\ InitRest /\ lim = WorkerScenario
    /\ ctx = [c \in CtxIds |->
                 IF c = "c1" THEN [HostCtxInit(c) EXCEPT !.headers = HeaderLineList[6]]
                 ELSE IF c \in HostCtxs THEN HostCtxInit(c)
                 ELSE ZeroCtx]
NextIdle ==
    \/ WorkerNext
    \/ CallbackNext
    \/ \E t \in Threads : CbReadCookies(t)
    \/ \E t \in Threads : CbRegisterAgain(t)
SpecIdle == InitIdle /\ [][NextIdle]_vars

\* ------------------------------------------------------------- properties
CtxPtrs(c) == {ctx[c].response_body, ctx[c].response_headers} \ {NULL}

\* C1: when an execution has completed, the body and header buffers of its
\* context hold exactly the bytes appended during that execution, their
\* blocks were allocated during that execution, and no other context
\* designates them.
C1_NoCrossRequestBytes ==
    \A c \in HostCtxs : phase[c] = "complete" =>
        /\ BodyBytes(ctx[c], heap) = exec[c].body
        /\ ctx[c].response_body_len = RLen(exec[c].body)
        /\ HeaderBytes(ctx[c], heap) = exec[c].headers
        /\ ctx[c].response_headers_len = RLen(exec[c].headers)
        /\ \A p \in CtxPtrs(c) : heap[p].live /\ heap[p].epoch = exec[c].epoch
        /\ \A d \in CtxIds \ {c} : CtxPtrs(c) \cap CtxPtrs(d) = {}
        /\ Cardinality(CtxPtrs(c)) =
              Cardinality({f \in {"response_body", "response_headers"} : ctx[c][f] # NULL})

\* A second request completed with output of its own while a block of the
\* first request, with that request's bytes, is still allocated.
C1_Witness ==
    \E c \in HostCtxs :
        /\ phase[c] = "complete" /\ exec[c].epoch = 2
        /\ exec[c].body # <<>> /\ exec[c].headers # <<>>
        /\ \E a \in Addrs : heap[a].live /\ heap[a].epoch = 1 /\ heap[a].data # <<>>

\* C2: at the start of an execution (context adopted, no callback run yet)
\* the buffers are NULL with length and capacity 0, the read cursor is 0,
\* the status is 200, and once callbacks can run the header-sent state is
\* reset.
C2_ResetAtStart ==
    \A c \in HostCtxs : phase[c] = "fresh" =>
        /\ ctx[c].response_body = NULL /\ ctx[c].response_body_len = 0
        /\ ctx[c].response_body_cap = 0
        /\ ctx[c].response_headers = NULL /\ ctx[c].response_headers_len = 0
        /\ ctx[c].response_headers_cap = 0
        /\ ctx[c].request_body_read = 0
        /\ ctx[c].response_status = 200
        /\ \A t \in Threads : current_request[t] = c /\ pc[t] \in EnginePcs
                               => ~sg[t].headers_sent

\* The worker enters Serving for its second request with the context of
\* its first, which the host handed over again as the first request left it.
C2_Witness ==
    \E c \in HostCtxs :
        /\ pc["w1"] = "callback" /\ current_request["w1"] = c
        /\ phase[c] = "fresh" /\ exec[c].epoch = 2 /\ lastDone["w1"] = c
        /\ sg["w1"].http_response_code = 200

\* C3: with no allocation failure, the response body is the concatenation
\* in order of the chunks written so far and response_body_len is the sum
\* of their lengths.
C3_BodyIsConcatenation ==
    \A c \in HostCtxs : phase[c] \in {"running", "complete"} /\ ~exec[c].dropped =>
        /\ ~fault
        /\ ctx[c].response_body_len = RLen(exec[c].body)
        /\ BodyBytes(ctx[c], heap) = exec[c].body
        /\ ctx[c].response_body # NULL => ctx[c].response_body_len < heap[ctx[c].response_body].cap

\* Three chunks were written: 1 byte, one reaching the capacity exactly,
\* one larger than the capacity.
C3_Witness ==
    \E c \in HostCtxs :
        /\ phase[c] = "complete" /\ ~exec[c].dropped
        /\ exec[c].body = << <<"a", 1>>, <<"b", 8191>>, <<"c", 20000>> >>

\* C4: every request that entered Serving has had its completion signal
\* once the worker is no longer running the callback.
C4_EveryServedRequestSignalled ==
    \A w \in Workers : pc[w] # "callback" => done[w] = served[w]

Resumes(w) == pc[w] = "hr_wait" /\ pc'[w] # "hr_wait"

C7_SecondSetNotAccepted ==
    [][\A w \in Workers :
          (worker_state[w].pending_request # NoCtx /\ pc[w] # "in_done") =>
          worker_state'[w].pending_request
             \in {worker_state[w].pending_request, NoCtx}]_vars

\* C7 amended: the pending slot holds the latest call; the worker serves
\* the context of the latest pox_worker_set_request run on its thread, one
\* request at a time.
C7_LatestSetIsServed ==
    [][\A w \in Workers : (pc[w] # "callback" /\ pc'[w] = "callback") =>
          /\ current_request'[w] = lastSet[w]
          /\ served[w] = done[w] /\ served'[w] = done'[w] + 1]_vars

\* Two contexts were handed to the worker on its thread; it serves the
\* second and the first was never served.
C7_Witness ==
    \E w \in Workers :
        /\ pc[w] = "callback" /\ current_request[w] = "c2"
        /\ handed[w] = {"c1", "c2"} /\ phase["c1"] = "none"
        /\ lastSet[Host] = NoCtx

\* C8: when the wait primitive returns 0, pox_handle_request returns false
\* and changes nothing but the waiting flag: no current request is set, no
\* context or buffer is touched, no completion is signalled.
C8_ShutdownReturnsFalse ==
    [][\A w \in Workers : (Resumes(w) /\ wake[w] = ShutdownWake) =>
          /\ hr_ret'[w] = "false" /\ pc'[w] = "script"
          /\ worker_state'[w] = [worker_state[w] EXCEPT !.waiting_for_request = 0]
          /\ UNCHANGED <<current_request, ctx, heap, exec, phase, sg, done, served,
                         lastDone, handed>>]_vars

\* pox_handle_request returned false to a worker that was never handed a
\* request.
C8_Witness ==
    /\ pc["w1"] = "script" /\ hr_ret["w1"] = "false"
    /\ served["w1"] = 0 /\ handed["w1"] = {} /\ offer["w1"] = NoOffer

\* C9: pox_handle_request called on a thread not in worker mode throws and
\* touches nothing: no wait, no waiting flag, no pending reference, no
\* current request, no context.
C9_NotWorkerModeThrows ==
    [][\A w \in Workers :
          (pc[w] = "script" /\ worker_state[w].is_worker_mode = 0
             /\ (pc'[w] = "hr_wait" \/ hr_ret'[w] # hr_ret[w])) =>
          /\ hr_ret'[w] = "throws" /\ pc'[w] = "script"
          /\ UNCHANGED <<worker_state, current_request, ctx, heap, wake>>]_vars

\* The call was made, and threw, on a thread whose worker mode had been
\* switched off.
C9_Witness ==
    \E w \in Workers : hr_ret[w] = "throws" /\ pc[w] = "script"
                       /\ worker_state[w].is_worker_mode = 0

\* C10: after pox_free_response both buffers are fully released: pointers
\* NULL, lengths and capacities zero.
C10_FreeResponseZeroesAll ==
    \A c \in HostCtxs : phase[c] = "released" =>
        /\ ctx[c].response_body = NULL /\ ctx[c].response_headers = NULL
        /\ ctx[c].response_body_len = 0 /\ ctx[c].response_body_cap = 0
        /\ ctx[c].response_headers_len = 0 /\ ctx[c].response_headers_cap = 0

\* C11: a pox_free_response call on a context already released, or on a
\* context whose execution allocated no buffer, frees nothing, leaves the
\* context as it was and touches no freed block.
C11_FreeIsIdempotent ==
    [][\A c \in HostCtxs :
          \/ phase[c] = "released" /\ phase'[c] = "released_again"
          \/ /\ phase[c] = "complete" /\ phase'[c] = "released"
             /\ ctx[c].response_body = NULL /\ ctx[c].response_headers = NULL
          => ctx'[c] = ctx[c] /\ heap' = heap /\ fault' = fault]_vars

\* A context that had held a buffer has been released twice.
C11_Witness ==
    \E c \in HostCtxs : phase[c] = "released_again" /\ exec[c].headers # <<>>
                         /\ ctx[c].response_headers_cap > 0 /\ ~fault

\* The contexts that exist: the host's, and the boot context of a
\* pox_worker_run call that has not returned.
ExistingCtxs == HostCtxs \cup {DummyOf(w) : w \in {v \in Workers : pc[v] \notin {"idle", "returned"}}}

\* C12: every block allocated by an append is freed exactly once: no block
\* is freed twice, and every block still allocated is designated by an
\* existing context, through which it can still be freed.
C12_FreedExactlyOnce ==
    /\ ~fault
    /\ \A a \in Addrs : heap[a].live => \E c \in ExistingCtxs : a \in CtxPtrs(c)

\* C13: when growing the body buffer fails, the write is dropped as a
\* whole: length and captured bytes are as before, the callback still
\* returns the length it was given, the thread goes on and no memory is
\* touched out of bounds; every write returns the length it was given.
C13_FailedGrowthDropsAppend ==
    [][\A t \in Threads :
          /\ cb_ret'[t].op = "ub_write" => cb_ret'[t].val = cb_ret'[t].arg
          /\ (current_request[t] # NoCtx /\ cb_ret'[t].op = "ub_write"
                /\ calls' = calls + 1 /\ cb_ret'[t].n = calls'
                /\ oomCount' = oomCount + 1) =>
             LET cr == current_request[t] IN
             /\ ctx'[cr].response_body_len = ctx[cr].response_body_len
             /\ BodyBytes(ctx'[cr], heap') = BodyBytes(ctx[cr], heap)
             /\ exec'[cr].dropped
             /\ pc' = pc /\ current_request' = current_request /\ fault' = fault
      ]_vars

\* A write was dropped by an allocation failure and a later write of the
\* same execution was captured.
C13_Witness ==
    \E c \in HostCtxs :
        /\ exec[c].dropped /\ exec[c].late /\ exec[c].body # <<>>
        /\ BodyBytes(ctx[c], heap) = exec[c].body
        /\ cb_ret[Host].op = "ub_write" /\ cb_ret[Host].val > 0

\* The smaller of two numbers.
Min(a, b) == IF a < b THEN a ELSE b

\* C17: a read of N bytes delivers min(N, remaining) bytes from the cursor
\* and advances the cursor by as many; it returns 0 at the end of the body,
\* with no body and with no current request; the cursor stays within
\* 0..request_body_len and the bytes delivered so far are the body's first
\* bytes, in order.
C17_ReadPostCursor ==
    /\ [](\A c \in HostCtxs : phase[c] \in {"fresh", "running", "complete"} =>
            /\ ctx[c].request_body_read \in 0..ctx[c].request_body_len
            /\ exec[c].read = RTake(ctx[c].request_body, ctx[c].request_body_read)
            /\ RLen(exec[c].read) = ctx[c].request_body_read)
    /\ [][\A t \in Threads :
            (cb_ret'[t].op = "read_post" /\ calls' = calls + 1 /\ cb_ret'[t].n = calls') =>
            LET cr == current_request[t]
                N == cb_ret'[t].arg
            IN  IF cr = NoCtx THEN cb_ret'[t].val = 0
                ELSE LET remaining == ctx[cr].request_body_len - ctx[cr].request_body_read
                         k == IF ctx[cr].request_body = <<>> THEN 0 ELSE Min(N, remaining)
                     IN  /\ cb_ret'[t].val = k
                         /\ ctx'[cr].request_body_read = ctx[cr].request_body_read + k
                         /\ remaining = 0 => cb_ret'[t].val = 0
       ]_vars

\* The whole 10-byte body was delivered, a read asking for more than was left
\* among them, and a further read of 4 bytes returned 0.
C17_Witness ==
    /\ current_request[Host] = "c1" /\ ctx["c1"].request_body_read = 10
    /\ exec["c1"].read = ctx["c1"].request_body
    /\ cb_ret[Host].op = "read_post" /\ cb_ret[Host].arg = 4 /\ cb_ret[Host].val = 0

\* C14: once pox_web_execute or pox_worker_run has set the current request
\* and attempted request startup, it returns only through the request
\* teardown (which leaves the headers sent), from whichever path it came
\* (script end, bailout, startup failure), and the current-request slot of
\* the thread is NULL whenever the function is not running.
C14_TeardownOnEveryPath ==
    /\ [](\A t \in Threads : pc[t] \in {"host", "idle", "returned"} =>
                                 current_request[t] = NoCtx)
    /\ [][\A t \in Threads :
            /\ (pc[t] \in {"web_startup", "web_script"} /\ pc'[t] # pc[t]) =>
                   pc'[t] \in {"web_script", "web_shutdown"}
            /\ (pc[t] \in {"run_startup", "script", "hr_wait", "callback", "in_done"}
                   /\ pc'[t] # pc[t]) =>
                   pc'[t] \in {"script", "hr_wait", "callback", "in_done", "run_shutdown"}
            /\ (pc[t] \in {"web_shutdown", "run_shutdown"} /\ pc'[t] # pc[t]) =>
                   /\ pc'[t] = IF pc[t] = "web_shutdown" THEN "host" ELSE "returned"
                   /\ sg'[t].headers_sent
                   /\ current_request'[t] = NoCtx
       ]_vars

\* A worker's callback ended in a fatal error while it served a request
\* (claimed, never signalled): pox_worker_run went through the teardown,
\* which sent the headers, and returned with the slot NULL.
C14_Witness ==
    \E w \in Workers :
        /\ pc[w] = "returned" /\ served[w] > done[w] /\ result[w] = 255
        /\ sg[w].headers_sent /\ current_request[w] = NoCtx

\* C15: the status pox_web_execute returns for an engine startup failure is
\* one that no script exit status, returned on the normal or the bailout
\* path, can equal.
C15_StartupStatusDistinct ==
    [][\A t \in Threads :
          (pc[t] = "web_script" /\ pc'[t] = "web_shutdown") =>
              result'[t] # StartupFailure]_vars

\* C16: an init call that fails at module startup leaves the initialized
\* flag 0 and none of the startup steps it performed in effect: across a
\* step that starts and ends with both flags 0, the engine's global state is
\* the same, so a retry starts from where the first attempt did.
C16_FailedInitLeavesNothing ==
    [][(/\ pox_web_initialized = 0 /\ pox_web_initialized' = 0
        /\ pox_worker_global_initialized = 0 /\ pox_worker_global_initialized' = 0)
       => engine' = engine]_vars

\* The text of a status line after its first space, where the code stands.
RECURSIVE AfterFirstSpace(_)
AfterFirstSpace(s) == IF s = <<>> THEN <<>>
                      ELSE IF s[1] = " " THEN Tail(s)
                      ELSE AfterFirstSpace(Tail(s))

\* C18: when the send-headers callback has run with a current request,
\* response_status is the code written in the engine's status line if one
\* is set, otherwise the engine's response code, and 200 if that gives 0.
C18_StatusFromEngine ==
    [][\A t \in Threads :
          (~sg[t].headers_sent /\ sg'[t].headers_sent /\ current_request[t] # NoCtx) =>
              LET line == sg'[t].http_status_line
                  code == IF line # NoLine THEN Atoi(AfterFirstSpace(line))
                          ELSE sg'[t].http_response_code
              IN  ctx'[current_request[t]].response_status =
                     IF code = 0 THEN 200 ELSE code]_vars

\* The variable table built for the current request of thread t.
Projected(t) == server[t].built /\ current_request[t] # NoCtx

\* A decimal numeral without sign or leading zero.
IsDecimal(v) == /\ v # <<>> /\ \A i \in 1..Len(v) : v[i] \in Digits
                /\ (Len(v) > 1 => v[1] # "0")

\* C19: the table built for a request has REQUEST_METHOD, REQUEST_URI,
\* QUERY_STRING, SCRIPT_FILENAME, DOCUMENT_ROOT, SERVER_NAME, SERVER_PORT,
\* REMOTE_ADDR, REMOTE_PORT and the three fixed strings, each with the whole
\* value of the field, or the whole default ("GET", "/", "", "localhost",
\* 80, "127.0.0.1") when the field is absent or the port not positive.
C19_StandardVariables ==
    \A t \in Threads : Projected(t) =>
        LET c == ctx[current_request[t]]
            v == server[t].vars
            Has(name, val) == name \in DOMAIN v /\ v[name] = val
            Or(field, dflt) == IF field = NullStr THEN dflt ELSE field
        IN  /\ Has(REQUEST_METHOD, Or(c.method, <<"G", "E", "T">>))
            /\ Has(REQUEST_URI, Or(c.uri, <<"/">>))
            /\ Has(QUERY_STRING, Or(c.query_string, <<>>))
            /\ Has(SCRIPT_FILENAME, Or(c.script_filename, <<>>))
            /\ Has(DOCUMENT_ROOT, Or(c.document_root, <<>>))
            /\ Has(SERVER_NAME, Or(c.server_name, <<"l", "o", "c", "a", "l", "h", "o", "s", "t">>))
            /\ SERVER_PORT \in DOMAIN v /\ IsDecimal(v[SERVER_PORT])
            /\ Atoi(v[SERVER_PORT]) = IF c.server_port > 0 THEN c.server_port ELSE 80
            /\ Has(REMOTE_ADDR, Or(c.remote_addr, <<"1", "2", "7", ".", "0", ".", "0", ".", "1">>))
            /\ REMOTE_PORT \in DOMAIN v /\ Atoi(v[REMOTE_PORT]) = c.remote_port
            /\ IsDecimal(IF c.remote_port < 0 THEN Tail(v[REMOTE_PORT]) ELSE v[REMOTE_PORT])
            /\ Has(SERVER_SOFTWARE, <<"p", "h", "p", "x">>)
            /\ Has(SERVER_PROTOCOL, <<"H", "T", "T", "P", "/", "1", ".", "1">>)
            /\ Has(GATEWAY_INTERFACE, <<"C", "G", "I", "/", "1", ".", "1">>)

\* A request with no method, no server name, no remote address and a
\* server port that is not positive got the defaults, its remote port -1.
C19_Witness ==
    /\ Projected(Host) /\ current_request[Host] = "c1"
    /\ ctx["c1"].method = NullStr /\ ctx["c1"].remote_addr = NullStr
    /\ ctx["c1"].server_port = -1
    /\ server[Host].vars[REMOTE_ADDR] = <<"1", "2", "7", ".", "0", ".", "0", ".", "1">>
    /\ server[Host].vars[SERVER_PORT] = <<"8", "0">>
    /\ server[Host].vars[REMOTE_PORT] = <<"-", "1">>

\* C20: CONTENT_TYPE is in the table iff the context has a content type,
\* with that value; CONTENT_LENGTH iff the content length is positive, as
\* its decimal text; HTTP_CONTENT_TYPE and HTTP_CONTENT_LENGTH never are,
\* whatever the header block carries.
C20_ContentVariables ==
    \A t \in Threads : Projected(t) =>
        LET c == ctx[current_request[t]]
            v == server[t].vars
        IN  /\ CONTENT_TYPE \in DOMAIN v <=> c.content_type # NullStr
            /\ CONTENT_TYPE \in DOMAIN v => v[CONTENT_TYPE] = c.content_type
            /\ CONTENT_LENGTH \in DOMAIN v <=> c.content_length > 0
            /\ CONTENT_LENGTH \in DOMAIN v =>
                   IsDecimal(v[CONTENT_LENGTH]) /\ Atoi(v[CONTENT_LENGTH]) = c.content_length
            /\ <<"H", "T", "T", "P", "_", "C", "O", "N", "T", "E", "N", "T", "_", "T", "Y", "P", "E">>
                   \notin DOMAIN v
            /\ <<"H", "T", "T", "P", "_", "C", "O", "N", "T", "E", "N", "T", "_", "L", "E", "N", "G", "T", "H">>
                   \notin DOMAIN v

\* A request of content length 10 whose header block has a Content-Type
\* line, a content-length line and one more header: CONTENT_LENGTH is "10" and
\* the other header was projected.
C20_Witness ==
    /\ Projected(Host) /\ current_request[Host] = "c1"
    /\ ctx["c1"].headers = <<"C", "o", "n", "t", "e", "n", "t", "-", "T", "y", "p", "e", ":", " ", "a", "/", "b", "\n", "X", "-", "a", ":", " ", "\t", "v", " ", "w", "\n", "c", "o", "n", "t", "e", "n", "t", "-", "l", "e", "n", "g", "t", "h", ":", "1", "0">>
    /\ ctx["c1"].content_length = 10 /\ ctx["c1"].content_type # NullStr
    /\ server[Host].vars[CONTENT_LENGTH] = <<"1", "0">>
    /\ <<"C", "O", "N", "T", "E", "N", "T", "_", "T", "Y", "P", "E">> \in DOMAIN server[Host].vars
    /\ server[Host].vars[<<"H", "T", "T", "P", "_", "X", "_", "A">>] = <<"v", " ", "w">>

\* The header blocks of the projection scenario, line by line: the sets of
\* lines of HeaderLineList a block can be joined from, and for each line of
\* the list the HTTP_ variable it stands for (<<name, value>>, <<>> if
\* none), written out.
BlockSets(headers) ==
    {S \in SUBSET (1..Len(HeaderLineList)) :
        Cardinality(S) <= MaxHeaderLines /\ headers = JoinLines(LinesOf(S))}
HeaderVarOf ==
    << <<>>,
       << <<"H", "T", "T", "P", "_", "X", "_", "A">>, <<"v", " ", "w">> >>,
       <<>>,
       <<>>,
       << <<"H", "T", "T", "P", "_", "C", "O", "O", "K", "I", "E">>, <<>> >>,
       << <<"H", "T", "T", "P", "_", "C", "O", "O", "K", "I", "E">>, <<"k", "=", "1">> >>,
       <<>>,
       << <<"H", "T", "T", "P", "_", "X", "_", "A">>, <<"b", ":", "c">> >> >>
HttpVars(v) == {n \in DOMAIN v : Len(n) >= 5 /\ SubSeq(n, 1, 5) = <<"H", "T", "T", "P", "_">>}

\* C21: in the table built for a request, every header line "Name: value"
\* other than the Content-Type and Content-Length lines has its variable
\* HTTP_<NAME>, upper-cased and with '_' for '-', holding the value without
\* its leading blanks (the value of the last such line when several lines
\* give the same variable); the Content-Type and Content-Length lines give
\* no HTTP_ variable, and there is no other HTTP_ variable.
C21_HeaderVariables ==
    \A t \in Threads : Projected(t) =>
        LET c == ctx[current_request[t]]
            v == server[t].vars
        IN  /\ c.headers = NullStr => HttpVars(v) = {}
            /\ \A S \in BlockSets(c.headers) :
                  /\ HttpVars(v) = {HeaderVarOf[i][1] : i \in {j \in S : HeaderVarOf[j] # <<>>}}
                  /\ \A i \in S : HeaderVarOf[i] # <<>> =>
                        \/ \E j \in S : j > i /\ HeaderVarOf[j] # <<>>
                                         /\ HeaderVarOf[j][1] = HeaderVarOf[i][1]
                        \/ v[HeaderVarOf[i][1]] = HeaderVarOf[i][2]

\* The block "Content-Type: a/b", "X-a: <blank><tab>v w", "cOOKIE: <blank><tab>k=1"
\* was projected: HTTP_X_A is "v w", HTTP_COOKIE is "k=1", and these are
\* the only HTTP_ variables.
C21_Witness ==
    /\ Projected(Host) /\ current_request[Host] = "c1"
    /\ {1, 2, 6} \in BlockSets(ctx["c1"].headers)
    /\ HttpVars(server[Host].vars) = {<<"H", "T", "T", "P", "_", "X", "_", "A">>,
                                      <<"H", "T", "T", "P", "_", "C", "O", "O", "K", "I", "E">>}
    /\ server[Host].vars[<<"H", "T", "T", "P", "_", "X", "_", "A">>] = <<"v", " ", "w">>
    /\ server[Host].vars[<<"H", "T", "T", "P", "_", "C", "O", "O", "K", "I", "E">>] = <<"k", "=", "1">>

\* C22: the cookie string the engine got from the read-cookies callback for
\* the current request is the value, without the blanks after the colon, of
\* the first line of the header block named Cookie in any case, also when
\* that value is empty; it is NULL when no line is and when there is no
\* header block.
C22_CookieOfFirstLine ==
    \A t \in Threads : server[t].active /\ current_request[t] # NoCtx =>
        IF ctx[current_request[t]].headers = NullStr
        THEN server[t].cookie_data = NullStr
        ELSE \A S \in BlockSets(ctx[current_request[t]].headers) :
                server[t].cookie_data =
                    IF 5 \in S THEN <<>>
                    ELSE IF 6 \in S THEN <<"k", "=", "1">>
                    ELSE NullStr

\* C30: the scan takes the lines one by one.  No value holds a newline; a
\* line without a colon, the empty line included, gives no variable and the
\* lines after it give theirs; the first colon of a line ends the name, so
\* no name holds a colon and "X-A:b:c" gives HTTP_X_A the value "b:c".
C30_LineByLine ==
    \A t \in Threads : Projected(t) /\ ctx[current_request[t]].headers # NullStr =>
        LET c == ctx[current_request[t]]
            v == server[t].vars
        IN  /\ \A n \in HttpVars(v) :
                  /\ \A k \in 1..Len(v[n]) : v[n][k] # "\n"
                  /\ \A k \in 1..Len(n) : n[k] # ":"
            /\ \A S \in BlockSets(c.headers) :
                  /\ Cardinality(HttpVars(v))
                        <= Cardinality({i \in S : \E k \in 1..Len(HeaderLineList[i]) :
                                                     HeaderLineList[i][k] = ":"})
                  /\ \A i \in S \cap {4, 7} : \A j \in S :
                        j > i /\ HeaderVarOf[j] # <<>> => HeaderVarOf[j][1] \in HttpVars(v)
                  /\ 8 \in S => /\ <<"H", "T", "T", "P", "_", "X", "_", "A">> \in HttpVars(v)
                                 /\ v[<<"H", "T", "T", "P", "_", "X", "_", "A">>] = <<"b", ":", "c">>

\* The block "junk", "", "X-A:b:c" was projected: its only variable is
\* HTTP_X_A, "b:c".
C30_Witness ==
    /\ Projected(Host) /\ current_request[Host] = "c1"
    /\ ctx["c1"].headers = <<"j", "u", "n", "k", "\n", "\n", "X", "-", "A", ":", "b", ":", "c">>
    /\ HttpVars(server[Host].vars) = {<<"H", "T", "T", "P", "_", "X", "_", "A">>}
    /\ server[Host].vars[<<"H", "T", "T", "P", "_", "X", "_", "A">>] = <<"b", ":", "c">>

C27_GroupsReResolved ==
    [][\A w \in Workers : served'[w] # served[w] =>
          /\ server'[w].built
          /\ \A g \in AutoGlobals \ {"_ENV"} :
                \/ server'[w].groups[g].armed
                \/ server'[w].groups[g].from = current_request'[w]
          /\ server'[w].groups["_ENV"] = server[w].groups["_ENV"]]_vars

\* The states of a worker thread: Serving from the adoption of the pending
\* context to the return of pox_handle_request, AwaitingRequest inside the
\* wait primitive, Terminated once pox_worker_run is past its script.
Serving(w) == pc[w] \in {"callback", "in_done"}
AwaitingRequest(w) == pc[w] = "hr_wait"
Terminated(w) == pc[w] \in {"run_shutdown", "returned"}

\* C24: a worker enters Serving only from AwaitingRequest, on a wake that
\* carries a request; it does not enter Terminated from Serving; and it
\* does not leave Terminated.
C24_WorkerStateMachine ==
    [][\A w \in Workers :
          /\ Serving(w)' /\ ~Serving(w) =>
                AwaitingRequest(w) /\ wake[w] \notin {NoWake, ShutdownWake}
          /\ Terminated(w)' /\ ~Terminated(w) => ~Serving(w)
          /\ Terminated(w) => Terminated(w)']_vars

\* C25: in the state the completion signal of a request leaves, neither the
\* current-request slot nor the pending reference of the worker designates
\* the finished context.
C25_ClearedBeforeSignal ==
    [][\A w \in Workers : done'[w] # done[w] =>
          /\ current_request'[w] # lastDone'[w]
          /\ worker_state'[w].pending_request # lastDone'[w]]_vars

\* C26: a step that enters Serving starts an engine request on the worker's
\* thread, none being started before it; when pox_handle_request returns
\* from Serving that request has been shut down; and the worker script is
\* entered once, before any request is served.
C26_StartupShutdownPerRequest ==
    [][\A w \in Workers :
          /\ served'[w] # served[w] => ~server[w].active /\ server'[w].active
          /\ pc[w] = "in_done" /\ pc'[w] = "script" => ~server'[w].active
          /\ pc[w] # "script" /\ pc'[w] = "script" /\ pc[w] \notin {"hr_wait", "in_done"} =>
                pc[w] = "run_startup" /\ served[w] = 0]_vars

\* cap is init times a power of two.
RECURSIVE IsDoubling(_, _)
IsDoubling(cap, init) ==
    cap = init \/ (cap > init /\ cap % 2 = 0 /\ IsDoubling(cap \div 2, init))

\* C28: the body capacity is 0 or 8192 times a power of two, the header
\* capacity 0 or 4096 times a power of two, and a length is below its
\* capacity unless that is 0; within an execution a capacity does not
\* decrease, and when no allocation failed it changes only to the first
\* capacity of the doubling sequence above the length reached (so it grows
\* exactly when that length reaches the old capacity).
C28_CapacityDoubles ==
    /\ [](\A c \in HostCtxs :
            /\ ctx[c].response_body_cap = 0 \/ IsDoubling(ctx[c].response_body_cap, 8192)
            /\ ctx[c].response_headers_cap = 0 \/ IsDoubling(ctx[c].response_headers_cap, 4096)
            /\ ctx[c].response_body_cap # 0 =>
                   ctx[c].response_body_len < ctx[c].response_body_cap
            /\ ctx[c].response_headers_cap # 0 =>
                   ctx[c].response_headers_len < ctx[c].response_headers_cap)
    /\ [][\A c \in HostCtxs : exec'[c].epoch = exec[c].epoch =>
            /\ ctx'[c].response_body_cap >= ctx[c].response_body_cap
            /\ ctx'[c].response_headers_cap >= ctx[c].response_headers_cap
            /\ (oomCount' = oomCount
                  /\ ctx'[c].response_body_cap # ctx[c].response_body_cap) =>
                  /\ ctx'[c].response_body_len >= ctx[c].response_body_cap
                  /\ \/ ctx'[c].response_body_cap = 8192
                     \/ ctx'[c].response_body_cap \div 2 <= ctx'[c].response_body_len
            /\ (oomCount' = oomCount
                  /\ ctx'[c].response_headers_cap # ctx[c].response_headers_cap) =>
                  /\ ctx'[c].response_headers_len >= ctx[c].response_headers_cap
                  /\ \/ ctx'[c].response_headers_cap = 4096
                     \/ ctx'[c].response_headers_cap \div 2 <= ctx'[c].response_headers_len
      ]_vars

\* After a 1-byte chunk, one of 8191 bytes and one of 20000, and a header
\* of 5000 bytes after one of 20: the capacities are 32768 and 8192.
C28_Witness ==
    \E c \in HostCtxs :
        /\ phase[c] = "complete" /\ ~exec[c].dropped
        /\ ctx[c].response_body_len = 28192 /\ ctx[c].response_body_cap = 32768
        /\ ctx[c].response_headers_len = 5022 /\ ctx[c].response_headers_cap = 8192

\* The engine's headers, each followed by one "\n".
RECURSIVE HeaderLinesOf(_)
HeaderLinesOf(list) ==
    IF list = <<>> THEN <<>>
    ELSE RCat(RPush(Head(list), "\n", 1), HeaderLinesOf(Tail(list)))

\* C29: the header buffer of an execution is always a sequence of whole
\* lines (some of the engine's headers, in the engine's order, each
\* followed by one "\n"), so it is empty or ends with "\n", also after an
\* append was dropped; and a send-headers call in which no allocation
\* failed leaves exactly the engine's list, header by header.
C29_HeaderLines ==
    /\ [](\A c \in HostCtxs : phase[c] \in {"fresh", "running", "complete"} =>
            LET b == HeaderBytes(ctx[c], heap) IN
            /\ b = <<>> \/ b[Len(b)] = <<"\n", 1>>
            /\ \E l \in HeaderLists(TRUE), keep \in SUBSET (1..2) :
                  b = HeaderLinesOf(SelectSeq(l, LAMBDA x : \E i \in keep \cap (1..Len(l)) : l[i] = x))
            /\ ~exec[c].dropped /\ ctx[c].response_headers_len > 0 =>
                  \E l \in HeaderLists(TRUE) : b = HeaderLinesOf(l))
    /\ [][\A t \in Threads :
            (sg'[t].headers_sent /\ ~sg[t].headers_sent /\ current_request[t] # NoCtx
               /\ oomCount' = oomCount) =>
            \E l \in HeaderLists(TRUE) :
               HeaderBytes(ctx'[current_request[t]], heap') = HeaderLinesOf(l)
      ]_vars

\* Of the two headers of a send-headers call the first was dropped by an
\* allocation failure: the buffer holds the second one alone, as a whole
\* line.
C29_Witness ==
    \E c \in HostCtxs :
        /\ exec[c].dropped /\ phase[c] \in {"running", "complete"}
        /\ HeaderBytes(ctx[c], heap) = << <<"y", 5000>>, <<"\n", 1>> >>

\* C31: the engine is started at most once between shutdowns.  Of each SAPI
\* at most one module startup has succeeded since its last shutdown, and its
\* initialized flag is 1 exactly when one has (for the web SAPI: exactly
\* when the module is up).  While the web flag stays 1 (pox_web_init and
\* pox_web_execute on an initialized engine) no startup step runs and
\* pox_web_init returns 0; while it stays 0 no shutdown step runs; the
\* worker flag, once 1, stays 1 and no startup step runs again.
C31_StartedOnce ==
    /\ [](/\ starts.web <= 1 /\ starts.worker <= 1
          /\ pox_web_initialized = 1 <=> starts.web = 1
          /\ pox_worker_global_initialized = 1 <=> starts.worker = 1
          /\ lim.web => (pox_web_initialized = 1 <=> "module" \in engine)
          /\ ~lim.web => (pox_worker_global_initialized = 1 <=> "module" \in engine))
    /\ [][/\ (pox_web_initialized = 1 /\ pox_web_initialized' = 1) =>
                /\ engine' = engine /\ starts' = starts
                /\ (pc[Host] = "host" /\ pc'[Host] = "host" /\ result' # result) =>
                      result'[Host] = 0
          /\ (pox_web_initialized = 0 /\ pox_web_initialized' = 0) =>
                /\ engine \subseteq engine'
                /\ starts'.web = 0
          /\ pox_worker_global_initialized = 1 =>
                /\ pox_worker_global_initialized' = 1
                /\ engine' = engine /\ starts' = starts
      ]_vars

\* Two executions have run on the engine that the first of them started.
C31_Witness ==
    /\ reqSeq = 2 /\ pc[Host] = "host" /\ result[Host] = 0
    /\ pox_web_initialized = 1 /\ starts.web = 1
    /\ \E c \in HostCtxs : phase[c] = "complete" /\ exec[c].epoch = 2

\* The steps of thread t that the handshake consists of: per-thread
\* initialization, a pox_worker_set_request call run on t, the wait of
\* pox_handle_request (entering and leaving it) and the completion step.
InitStep(t) == pc[t] = "idle" /\ pc'[t] = "run_startup"
SetStep(t) == /\ handed' # handed /\ lastSet'[t] = worker_state'[t].pending_request
              /\ worker_state'[t].waiting_for_request = worker_state[t].waiting_for_request
WaitStep(t) == \/ pc[t] = "script" /\ pc'[t] = "hr_wait"
               \/ pc[t] = "hr_wait" /\ pc'[t] \in {"script", "callback"}
DoneStep(t) == pc[t] = "in_done" /\ pc'[t] = "script"

\* C32: the waiting flag of a thread is 1 exactly while it is inside the
\* wait primitive; the waiting flag changes only in the per-thread
\* initialization and around the wait, the pending reference only in the
\* initialization, in a pox_worker_set_request call and in the completion
\* step; the worker-mode flag is set only by the initialization and is
\* cleared only at the end of pox_worker_run or by pox_worker_shutdown,
\* never by serving a request.
C32_HandshakeFrame ==
    /\ [](\A t \in Threads :
            worker_state[t].waiting_for_request = IF pc[t] = "hr_wait" THEN 1 ELSE 0)
    /\ [][\A t \in Threads :
            /\ worker_state'[t].waiting_for_request # worker_state[t].waiting_for_request
                  => InitStep(t) \/ WaitStep(t)
            /\ worker_state'[t].pending_request # worker_state[t].pending_request
                  => \/ InitStep(t) /\ worker_state'[t].pending_request = NoCtx
                     \/ SetStep(t)
                     \/ DoneStep(t) /\ worker_state'[t].pending_request = NoCtx
            /\ (worker_state[t].is_worker_mode = 0 /\ worker_state'[t].is_worker_mode = 1)
                  => InitStep(t)
            /\ (worker_state[t].is_worker_mode = 1 /\ worker_state'[t].is_worker_mode = 0)
                  => \/ pc[t] = "run_shutdown" /\ pc'[t] = "returned"
                     \/ /\ pc' = pc /\ current_request' = current_request
                        /\ served' = served /\ done' = done /\ handed' = handed
                        /\ worker_state' = [worker_state EXCEPT ![t].is_worker_mode = 0]
      ]_vars

\* A worker that has served two requests is inside the wait primitive for
\* the third time, its waiting flag and its worker-mode flag 1.
C32_Witness ==
    \E w \in Workers :
        /\ served[w] = 2 /\ done[w] = 2 /\ pc[w] = "hr_wait"
        /\ worker_state[w].waiting_for_request = 1
        /\ worker_state[w].is_worker_mode = 1
        /\ worker_state[w].pending_request = NoCtx

\* The fields of a context that a step may have changed.
ChangedFields(c) == {f \in DOMAIN ctx[c] : ctx'[c][f] # ctx[c][f]}

\* The response fields and the body read cursor.
ResponseFields == {"response_body", "response_body_len", "response_body_cap",
                   "response_headers", "response_headers_len", "response_headers_cap",
                   "response_status", "request_body_read"}

\* C33: a step of a thread on which a context of the host is or becomes the
\* current request (pox_web_execute from adoption to return, Serving in
\* pox_handle_request, and every adapter callback in between) changes of
\* that context only response fields and the body read cursor, and of the
\* contexts that are nobody's current request nothing at all unless the
\* host released their response.
C33_OnlyResponseFields ==
    [][\A c \in HostCtxs : ctx'[c] # ctx[c] =>
          /\ (\E t \in Threads : current_request[t] = c \/ current_request'[t] = c)
                => ChangedFields(c) \subseteq ResponseFields
          /\ (\A t \in Threads : current_request[t] # c /\ current_request'[t] # c)
                => ChangedFields(c) \subseteq {"response_body", "response_headers"}
      ]_vars

\* An execution of the context with a request body has completed, in which
\* the body was read from and the headers were sent; its request fields are
\* those the host gave it.
C33_Witness ==
    /\ phase["c1"] = "complete"
    /\ ctx["c1"].request_body_read > 0
    /\ ctx["c1"].response_headers_len > 0 /\ ctx["c1"].response_status = 200
    /\ \A f \in DOMAIN ZeroCtx \ ResponseFields : ctx["c1"][f] = HostCtxInit("c1")[f]

\* C34: a callback that runs on a thread whose current-request slot is NULL
\* changes no context, no buffer and no record of an execution's output
\* (so what it was given is in no later response: a completed response
\* holds the bytes recorded for its own execution); the write callback
\* returns the length it was given, the body read 0, the cookie read NULL,
\* and the registration leaves the table empty.
C34_NoRequestNoEffect ==
    /\ [](\A c \in HostCtxs : phase[c] = "complete" =>
             /\ BodyBytes(ctx[c], heap) = exec[c].body
             /\ HeaderBytes(ctx[c], heap) = exec[c].headers)
    /\ [][\A t \in Threads : current_request[t] = NoCtx =>
            /\ (cb_ret'[t] # cb_ret[t] /\ cb_ret'[t].op = "ub_write") =>
                  /\ UNCHANGED <<ctx, heap, exec>>
                  /\ cb_ret'[t].val = cb_ret'[t].arg
            /\ (cb_ret'[t] # cb_ret[t] /\ cb_ret'[t].op = "read_post") =>
                  /\ UNCHANGED <<ctx, heap, exec>>
                  /\ cb_ret'[t].val = 0
            /\ (sg'[t].headers_sent /\ ~sg[t].headers_sent) =>
                  UNCHANGED <<ctx, heap, exec>>
            /\ (pc'[t] = pc[t] /\ server'[t] # server[t]) =>
                  /\ UNCHANGED <<ctx, heap, exec>>
                  /\ \/ server'[t] = [server[t] EXCEPT !.cookie_data = NullStr]
                     \/ server'[t] = [server[t] EXCEPT !.built = TRUE, !.vars = EmptyVars]
      ]_vars

\* Between its two requests the worker's engine has written a byte with
\* the slot NULL, read the cookies and built the table: the byte was
\* reported written, the cookies and the table of the first request are
\* gone, and the second response, now complete, is empty.
C34_Witness ==
    \E w \in Workers :
        /\ served[w] = 2 /\ done[w] = 2 /\ current_request[w] = NoCtx
        /\ cb_ret[w].op = "ub_write" /\ cb_ret[w].arg = 1 /\ cb_ret[w].val = 1
        /\ server[w].cookie_data = NullStr /\ server[w].vars = EmptyVars
        /\ \A c \in HostCtxs : phase[c] = "complete" /\ ctx[c].response_body_len = 0

\* C35: Serving is entered with the pending reference as the current
\* request; from then until the completion signal the current request of
\* the worker stays that context whatever else happens, a
\* pox_worker_set_request call included, which changes no context; every
\* adapter callback of the worker reads and writes that context only; and
\* the completion signal is for it.
C35_InProgressUnaffected ==
    [][\A w \in Workers :
          /\ (pc[w] = "hr_wait" /\ pc'[w] = "callback") =>
                current_request'[w] = worker_state[w].pending_request
          /\ pc[w] = "callback" =>
                LET cur == current_request[w] IN
                /\ cur \in HostCtxs
                /\ pc'[w] \in {"callback", "in_done"} => current_request'[w] = cur
                /\ (\E x \in Workers : handed'[x] \ handed[x] # {}) =>
                      /\ UNCHANGED <<ctx, heap, exec, current_request>>
                      /\ pc'[w] = "callback"
                /\ ((cb_ret'[w] # cb_ret[w] /\ cb_ret'[w].op # "none")
                      \/ (sg'[w].headers_sent /\ ~sg[w].headers_sent)) =>
                      \A c \in CtxIds \ {cur} : ctx'[c] = ctx[c] /\ exec'[c] = exec[c]
                /\ (cb_ret'[w] # cb_ret[w] /\ cb_ret'[w].op = "read_post") =>
                      /\ cb_ret'[w].val = ReadPostCount(ctx[cur], cb_ret'[w].arg)
                      /\ ctx'[cur].request_body_read =
                            ctx[cur].request_body_read + cb_ret'[w].val
                /\ (cb_ret'[w] # cb_ret[w] /\ cb_ret'[w].op = "ub_write") =>
                      ctx'[cur].response_body_len =
                         ctx[cur].response_body_len + cb_ret'[w].arg
                /\ pc'[w] = "in_done" => lastDone'[w] = cur
      ]_vars

\* While the worker served a context and wrote a byte into its response,
\* the host set the other context; the completion signal was for the
\* context being served, whose response holds the byte, and the other
\* context is untouched.
C35_Witness ==
    \E w \in Workers, c, d \in HostCtxs :
        /\ c # d /\ pc[w] = "in_done" /\ lastDone[w] = c /\ current_request[w] = c
        /\ offer[w].c = d /\ offer[w].at = "callback"
        /\ phase[c] = "complete" /\ ctx[c].response_body_len = 1
        /\ phase[d] = "none" /\ ctx[d] = HostCtxInit(d)

\* C36: when the wait primitive returns with a request but the pending
\* reference of the worker is NULL, pox_handle_request returns false: the
\* current-request slot, the contexts and the counts of Serving entries and
\* completion signals are as before.  Otherwise a wait that returns with a
\* request enters Serving with the pending reference, which is not NULL,
\* as the current request; and throughout Serving the slot holds that
\* context (the one SG(server_context) was given at entry).
C36_NoServingWithoutContext ==
    /\ [](\A w \in Workers : Serving(w) =>
             /\ current_request[w] \in HostCtxs
             /\ current_request[w] = sg[w].server_context)
    /\ [][\A w \in Workers :
            (pc[w] = "hr_wait" /\ pc'[w] # "hr_wait" /\ wake[w] # ShutdownWake) =>
               IF worker_state[w].pending_request = NoCtx
               THEN /\ pc'[w] = "script" /\ hr_ret'[w] = "false"
                    /\ current_request'[w] = current_request[w]
                    /\ served'[w] = served[w] /\ done'[w] = done[w]
                    /\ lastDone'[w] = lastDone[w]
                    /\ UNCHANGED <<ctx, heap, exec, phase>>
               ELSE /\ pc'[w] = "callback"
                    /\ current_request'[w] = worker_state[w].pending_request
                    /\ served'[w] = served[w] + 1
      ]_vars

\* The host set a context on its own thread and woke the worker, whose
\* pending reference was NULL: pox_handle_request has returned false, no
\* Serving entry and no completion signal was counted, and the slot still
\* holds the boot context.
C36_Witness ==
    \E w \in Workers :
        /\ pc[w] = "script" /\ hr_ret[w] = "false"
        /\ handed[w] # {} /\ offer[w] = NoOffer /\ wake[w] = NoWake
        /\ worker_state[w].pending_request = NoCtx
        /\ worker_state[Host].pending_request \in handed[w]
        /\ served[w] = 0 /\ done[w] = 0
        /\ current_request[w] = DummyOf(w)

====
